---- MODULE Spec2Model ----
(***************************************************************************)
(* A model of the ITIL-NEXT ticket workflow engine: the ownership service, *)
(* the envelope (parallel assist) service, the resolution service and the  *)
(* alert service, over repositories that hand out a copy of the stored     *)
(* record on get() and replace the stored record on save(); where a        *)
(* handler's result depends on get() returning a copy or the stored        *)
(* object, both outcomes are allowed.                                      *)
(*                                                                         *)
(* Spec, SpecOwn, SpecEnv, SpecNote, SpecRes, SpecTier, SpecAlert,         *)
(*   SpecDue, SpecNotify : every handler runs to completion before the     *)
(*   next one starts.                                                      *)
(* SpecGuard : the gates of OwnershipGuard.                                *)
(* SpecView : the reads of the timeline service.                           *)
(* SpecScore, SpecQueue : calculate_score and get_work_queue over their    *)
(*   inputs.  SpecEsc : calculate_score between envelope calls.            *)
(* SpecClock : check_ticket_alerts with business time switched off.        *)
(* SpecAcceptRace, SpecEnvRace, SpecFlagRace, SpecAlertRace : handlers     *)
(*   are split at their awaits and interleave.                             *)
(***************************************************************************)
EXTENDS Integers, Sequences, FiniteSets, Bags, TLC

VARIABLES
    tickets,      \* ticket_repo: ticket id -> Ticket
    agents,       \* agent_repo: agent id -> Agent
    envelopes,    \* envelope_repo: sequence of Envelope, the id is the index
    timeline,     \* timeline_repo: append-only sequence of TimelineEntry
    resolutions,  \* resolution_repo: sequence of Resolution, the id is the index
    calibration,  \* calibration_repo: sequence of queued items
    alerts,       \* alert_repo: sequence of Alert
    sent,         \* notification_service.send_alert calls, as a bag
    now,          \* datetime.utcnow(), in minutes
    calls,        \* in-flight handler calls (race specs): process -> frame
    last          \* the outcome of the handler call that finished last

vars == <<tickets, agents, envelopes, timeline, resolutions, calibration,
          alerts, sent, now, calls, last>>

----------------------------------------------------------------------------
(* Bounds of the model *)

MaxTimeline == 5
MaxEnvelopes == 2
MaxTransfers == 1
MaxResolutions == 1
MaxAlerts == 4

\* Minutes since Monday 00:00.  The tickets are created on Monday at 08:00;
\* the clock visits moments at which rules of the alert matrix start to
\* trigger: 08:15 (not_assigned, not_updated level 1) and 08:30 (not_updated
\* level 2, not_completed level 1 of the critical ticket due at 09:00).
Start == 8 * 60
TimePoints == {495, 510}
RaceTimePoints == {485, 495}

(* Identities *)

None == "none"
\* An Optional[datetime] that is None
NoTime == 0 - 1
Tickets == {"t1", "t2"}
Agents == {"a1", "a2", "a3"}
Teams == {"T1", "T2"}
Procs == {"p1", "p2"}
Authorizers == {"a1"}

(* models/ticket.py enums *)

TicketStatus == {"new", "in_progress", "waiting_customer", "waiting_internal",
                 "resolved", "closed"}
EnvelopeStatus == {"pending", "active", "completed"}

(* transfer_type values a caller may pass; only the first two are valid *)
TransferTypes == {"termination", "extended_leave", "escalation"}

Ticket(priority, owner, status, hasEnv, created, updated, breach, resolved, flags) ==
    [priority |-> priority, owner_id |-> owner, status |-> status,
     has_active_envelopes |-> hasEnv,
     created_at |-> created, updated_at |-> updated, sla_breach_at |-> breach,
     resolved_at |-> resolved, flags |-> flags]

Agent(active, cur, max, teams) ==
    [is_active |-> active, current_tickets |-> cur, max_tickets |-> max,
     team_ids |-> teams, empowerment_limit |-> 100]

\* team_repo: the teams are never written by the services
Team(team_id) ==
    CASE team_id = "T1" ->
           [tier1_limit |-> 150, tier2_limit |-> 500, supervisor_id |-> "a2"]
      [] team_id = "T3" ->
           [tier1_limit |-> 300, tier2_limit |-> 250, supervisor_id |-> None]
      [] OTHER ->
           [tier1_limit |-> 100, tier2_limit |-> 500, supervisor_id |-> None]

TimelineEntry(t, e, type, vis, author, content) ==
    [ticket_id |-> t, envelope_id |-> e, type |-> type, visibility |-> vis,
     author_id |-> author, content |-> content]

\* The frame of a handler call: its arguments, the await it has reached, and
\* the copies of the records it has read from the repositories.
Frame(op, pc, result, t, a, e, ticket, agent, envelope) ==
    [op |-> op, pc |-> pc, result |-> result, ticket_id |-> t, agent_id |-> a,
     envelope_id |-> e, ticket |-> ticket, agent |-> agent, envelope |-> envelope]

NoCall == Frame("idle", "idle", "none", None, None, 0, None, None, None)

\* The frame of a call that has returned or raised
Done(f, result) ==
    Frame(f.op, "done", result, f.ticket_id, f.agent_id, f.envelope_id,
          None, None, None)

InFlight(p) == calls[p].pc \notin {"idle", "done"}
NoLast == [op |-> "none", result |-> "none", ticket |-> None, agent |-> None,
           envelope |-> 0]
\* What a finished call shows: the handler and its result, and for a call that
\* went through the ticket, agent and envelope it acted on.
Outcome(op, result, t, a, e) ==
    IF result = "ok"
    THEN [op |-> op, result |-> result, ticket |-> t, agent |-> a, envelope |-> e]
    ELSE [op |-> op, result |-> result, ticket |-> None, agent |-> None,
          envelope |-> 0]

Idle == \A p \in Procs : ~InFlight(p)

SeqMember(x, s) == \E i \in 1..Len(s) : s[i] = x

\* The exceptional transfers made so far, read off the audit trail.
NumTransfers == Cardinality({i \in 1..Len(timeline) :
                               timeline[i].content = "ownership_transfer"})

----------------------------------------------------------------------------
(* Initial state: tickets created unowned in status New, no envelopes, no   *)
(* alerts; three agents, one of them inactive, one with a capacity of one.  *)

Init ==
    /\ tickets = [t \in Tickets |->
                    IF t = "t1"
                    THEN Ticket("critical", None, "new", FALSE, Start, Start,
                                Start + 60, NoTime, <<>>)
                    ELSE Ticket("high", None, "new", FALSE, Start, Start,
                                NoTime, NoTime, <<"vip", "social_media", "legal">>)]
    /\ agents = [a \in Agents |->
                   CASE a = "a1" -> Agent(TRUE, 0, 2, <<"T1">>)
                     [] a = "a2" -> Agent(TRUE, 0, 1, <<"T1", "T2">>)
                     [] OTHER    -> Agent(FALSE, 0, 2, <<>>)]
    /\ envelopes = <<>>
    /\ timeline = <<>>
    /\ resolutions = <<>>
    /\ calibration = <<>>
    /\ alerts = <<>>
    /\ sent = EmptyBag
    /\ now = Start
    /\ calls = [p \in Procs |-> NoCall]
    /\ last = NoLast

----------------------------------------------------------------------------
(* OwnershipService *)

\* accept_ticket without its owner check
AcceptTicketError_NoOwnerCheck(ticket, agent) ==
    IF ~agent.is_active THEN "AgentInactive"
    ELSE IF agent.current_tickets >= agent.max_tickets THEN "AgentAtCapacity"
    ELSE "ok"

\* accept_ticket with the capacity test off by one (> for >=)
AcceptTicketError_OffByOne(ticket, agent) ==
    IF ticket.owner_id /= None THEN "AlreadyOwned"
    ELSE IF ~agent.is_active THEN "AgentInactive"
    ELSE IF agent.current_tickets > agent.max_tickets THEN "AgentAtCapacity"
    ELSE "ok"

\* The three validations of accept_ticket, in the order the code makes them.
AcceptTicketError(ticket, agent) ==
    IF ticket.owner_id /= None THEN "AlreadyOwned"
    ELSE IF ~agent.is_active THEN "AgentInactive"
    ELSE IF agent.current_tickets >= agent.max_tickets THEN "AgentAtCapacity"
    ELSE "ok"

\* accept_ticket forgetting the status change
AcceptedTicket_StatusKept(ticket, a) ==
    [ticket EXCEPT !.owner_id = a, !.updated_at = now]

\* The ticket as accept_ticket changes its copy before saving it.
AcceptedTicket(ticket, a) ==
    [ticket EXCEPT !.owner_id = a, !.status = "in_progress", !.updated_at = now]

\* The agent as accept_ticket changes its copy before saving it.
AcceptedAgent(agent) ==
    [agent EXCEPT !.current_tickets = @ + 1]

AcceptEntry(t) ==
    TimelineEntry(t, 0, "system", "internal", None, "accepted")

AcceptTicket(t, a) ==
    LET ticket == tickets[t]
        agent == agents[a]
        err == AcceptTicketError(ticket, agent)
    IN  /\ Idle
        /\ IF err /= "ok"
           THEN UNCHANGED <<tickets, agents, timeline>>
           ELSE /\ Len(timeline) < MaxTimeline
                /\ tickets' = [tickets EXCEPT ![t] = AcceptedTicket(ticket, a)]
                /\ agents' = [agents EXCEPT ![a] = AcceptedAgent(agent)]
                /\ timeline' = Append(timeline, AcceptEntry(t))
        /\ last' = Outcome("accept_ticket", err, t, a, 0)
        /\ UNCHANGED <<envelopes, resolutions, calibration, alerts, sent, now, calls>>

ValidateOwnership(t, a) == tickets[t].owner_id = a

\* transfer_ownership accepting any transfer type
ValidTransferReasons_Any == {"termination", "extended_leave", "escalation"}

ValidTransferReasons == {"termination", "extended_leave"}

\* transfer_ownership reads the old and the new owner with two agent_repo.get
\* calls, takes 1 from the first and adds 1 to the second, and saves the old
\* owner first, the new owner second.  When both are the same agent the
\* repository decides what the two reads are: two copies of the record, of
\* which the one saved last stays, or one shared object.
TransferredAgents(old, new) ==
    LET oldCopy == [agents[old] EXCEPT !.current_tickets = @ - 1]
        newCopy == [agents[new] EXCEPT !.current_tickets = @ + 1]
        copies == [[agents EXCEPT ![old] = oldCopy] EXCEPT ![new] = newCopy]
        shared == [[agents EXCEPT ![old] = oldCopy]
                     EXCEPT ![new].current_tickets = @ + 1]
    IN  {copies, shared}

TransferEntry(t) ==
    TimelineEntry(t, 0, "system", "internal", None, "ownership_transfer")

\* agent_repo.get(None) for a ticket without owner yields no agent, and the
\* handler stops on old_owner.current_tickets before any save.
TransferError(ticket, type) ==
    IF type \notin ValidTransferReasons THEN "InvalidTransferReason"
    ELSE IF ticket.owner_id = None THEN "NoOwner"
    ELSE "ok"

\* The ticket records after a transfer that failed.  The transfer type is
\* tested before anything is read.  For a ticket without owner the handler has
\* already assigned owner_id and updated_at on the ticket it read when it stops
\* on old_owner.current_tickets: nothing is saved, so the record is the one it
\* was when ticket_repo.get returns a copy, and the changed one when it returns
\* the stored object.
TransferFailedTickets(t, new, err) ==
    IF err = "NoOwner"
    THEN {tickets,
          [tickets EXCEPT ![t] = [@ EXCEPT !.owner_id = new, !.updated_at = now]]}
    ELSE {tickets}

TransferOwnership(t, new, type, auth) ==
    LET ticket == tickets[t]
        old == ticket.owner_id
        err == TransferError(ticket, type)
    IN  /\ Idle
        /\ IF err /= "ok"
           THEN /\ tickets' \in TransferFailedTickets(t, new, err)
                /\ UNCHANGED <<agents, timeline>>
           ELSE /\ Len(timeline) < MaxTimeline
                /\ NumTransfers < MaxTransfers
                /\ tickets' = [tickets EXCEPT ![t] =
                                 [ticket EXCEPT !.owner_id = new, !.updated_at = now]]
                /\ agents' \in TransferredAgents(old, new)
                /\ timeline' = Append(timeline, TransferEntry(t))
        /\ last' = Outcome("transfer_ownership", err, t, new, 0)
        /\ UNCHANGED <<envelopes, resolutions, calibration, alerts, sent, now, calls>>

\* release_ownership without its status check
ReleaseError_NoStatusCheck(ticket, a) ==
    IF ticket.owner_id /= a THEN "NotOwner" ELSE "ok"

ReleaseError(ticket, a) ==
    IF ticket.owner_id /= a THEN "NotOwner"
    ELSE IF ticket.status \notin {"resolved", "closed"} THEN "TicketStillActive"
    ELSE "ok"

Max(x, y) == IF x >= y THEN x ELSE y
Min(x, y) == IF x <= y THEN x ELSE y

\* release_ownership decrementing without the floor at 0
ReleasedAgent_NoFloor(agent) ==
    [agent EXCEPT !.current_tickets = @ - 1]

ReleasedAgent(agent) ==
    [agent EXCEPT !.current_tickets = Max(0, @ - 1)]

ReleaseOwnership(t, a) ==
    LET ticket == tickets[t]
        err == ReleaseError(ticket, a)
    IN  /\ Idle
        /\ IF err /= "ok"
           THEN UNCHANGED agents
           ELSE agents' = [agents EXCEPT ![a] = ReleasedAgent(agents[a])]
        /\ last' = Outcome("release_ownership", err, t, a, 0)
        /\ UNCHANGED <<tickets, envelopes, timeline, resolutions, calibration,
                       alerts, sent, now, calls>>

\* The owner-only status change of the ticket service (resolve, close, wait
\* for the customer), behind OwnershipGuard.require_owner.
SetTicketStatus(t, a, s) ==
    /\ Idle
    /\ ValidateOwnership(t, a)
    /\ tickets[t].status \notin {"resolved", "closed"}
    /\ tickets[t].status /= s
    /\ tickets' = [tickets EXCEPT ![t] =
                     [@ EXCEPT !.status = s, !.updated_at = now,
                               !.resolved_at = IF s = "resolved" THEN now ELSE @]]
    /\ last' = Outcome("set_status", "ok", t, a, 0)
    /\ UNCHANGED <<agents, envelopes, timeline, resolutions, calibration,
                   alerts, sent, now, calls>>

----------------------------------------------------------------------------
(* OwnershipGuard *)

\* What a gate leaves behind: the call and whether it returned or raised
Gate(op, result, t, a, e, action) ==
    [op |-> op, result |-> result, ticket |-> t, agent |-> a, envelope |-> e,
     action |-> action]

RequireOwnerError(t, a) ==
    IF ~ValidateOwnership(t, a) THEN "NotAuthorized" ELSE "ok"

RequireOwner(t, a, action) ==
    /\ Idle
    /\ last' = Gate("require_owner", RequireOwnerError(t, a), t, a, 0, action)
    /\ UNCHANGED <<tickets, agents, envelopes, timeline, resolutions, calibration,
                   alerts, sent, now, calls>>

\* envelope_id 0 is no envelope id.  With an envelope id the gate returns
\* without reading the envelope.
RequireOwnerOrEnvelopeExpertError(t, a, e) ==
    IF ValidateOwnership(t, a) THEN "ok"
    ELSE IF e /= 0 THEN "ok"
    ELSE "NotAuthorized"

RequireOwnerOrEnvelopeExpert(t, a, e, action) ==
    /\ Idle
    /\ last' = Gate("require_owner_or_envelope_expert",
                    RequireOwnerOrEnvelopeExpertError(t, a, e), t, a, e, action)
    /\ UNCHANGED <<tickets, agents, envelopes, timeline, resolutions, calibration,
                   alerts, sent, now, calls>>

----------------------------------------------------------------------------
(* EnvelopeService *)

Envelope(t, by, to, team) ==
    [ticket_id |-> t, requested_by |-> by, assigned_to |-> to, team_id |-> team,
     status |-> "pending", summary |-> None]

EnvelopeIds == 1..Len(envelopes)

\* envelope_repo.get_for_ticket
GetForTicket(envs, t) == {e \in 1..Len(envs) : envs[e].ticket_id = t}

\* envelope_repo.get_active_for_ticket: the envelopes an expert is working in
GetActiveForTicket(envs, t) ==
    {e \in GetForTicket(envs, t) : envs[e].status = "active"}

\* create_envelope taking the agent named on any envelope of the ticket,
\* whatever its status, for an expert
CreateEnvelopeError_AnyStatus(t, by) ==
    LET expert_ids == {envelopes[e].assigned_to : e \in
                         {x \in GetForTicket(envelopes, t) :
                            envelopes[x].assigned_to /= None}}
    IN  IF tickets[t].owner_id /= by /\ by \notin expert_ids
        THEN "NotAuthorizedToEscalate"
        ELSE "ok"

\* The validation of create_envelope: the owner, or the expert of an active
\* envelope of the ticket.
CreateEnvelopeError(t, by) ==
    LET expert_ids == {envelopes[e].assigned_to : e \in
                         {x \in GetActiveForTicket(envelopes, t) :
                            envelopes[x].assigned_to /= None}}
    IN  IF tickets[t].owner_id /= by /\ by \notin expert_ids
        THEN "NotAuthorizedToEscalate"
        ELSE "ok"

\* create_envelope leaving has_active_envelopes as it was
EscalatedTicket_FlagKept(ticket) ==
    [ticket EXCEPT !.status = "waiting_internal", !.updated_at = now]

\* The ticket update of create_envelope
EscalatedTicket(ticket) ==
    [ticket EXCEPT !.status = "waiting_internal", !.has_active_envelopes = TRUE,
                   !.updated_at = now]

EnvelopeCreatedEntry(t, e, by) ==
    TimelineEntry(t, e, "envelope_created", "envelope_only", by, "envelope_created")

CreateEnvelope(t, by, team, to) ==
    LET err == CreateEnvelopeError(t, by)
        id == Len(envelopes) + 1
    IN  /\ Idle
        /\ IF err /= "ok"
           THEN UNCHANGED <<envelopes, tickets, timeline>>
           ELSE /\ Len(envelopes) < MaxEnvelopes
                /\ Len(timeline) < MaxTimeline
                /\ envelopes' = Append(envelopes, Envelope(t, by, to, team))
                /\ tickets' = [tickets EXCEPT ![t] = EscalatedTicket(@)]
                /\ timeline' = Append(timeline, EnvelopeCreatedEntry(t, id, by))
        /\ last' = Outcome("create_envelope", err, t, by,
                           IF err = "ok" THEN id ELSE 0)
        /\ UNCHANGED <<agents, resolutions, calibration, alerts, sent, now, calls>>

\* The validations of accept_envelope, in the order the code makes them.
AcceptEnvelopeError(envelope, a, agent) ==
    IF envelope.status /= "pending" THEN "AlreadyAccepted"
    ELSE IF envelope.team_id /= None
         THEN IF ~SeqMember(envelope.team_id, agent.team_ids)
              THEN "NotTeamMember" ELSE "ok"
    ELSE IF envelope.assigned_to /= None /\ envelope.assigned_to /= a
         THEN "NotAssignedAgent"
    ELSE "ok"

\* The envelope as accept_envelope changes its copy before saving it.
AcceptedEnvelope(envelope, a) ==
    [envelope EXCEPT !.assigned_to = a, !.status = "active"]

EnvelopeAcceptedEntry(t, e, a) ==
    TimelineEntry(t, e, "system", "envelope_only", a, "envelope_accepted")

AcceptEnvelope(e, a) ==
    LET envelope == envelopes[e]
        err == AcceptEnvelopeError(envelope, a, agents[a])
    IN  /\ Idle
        /\ IF err /= "ok"
           THEN UNCHANGED <<envelopes, timeline>>
           ELSE /\ Len(timeline) < MaxTimeline
                /\ envelopes' = [envelopes EXCEPT ![e] = AcceptedEnvelope(envelope, a)]
                /\ timeline' = Append(timeline,
                                      EnvelopeAcceptedEntry(envelope.ticket_id, e, a))
        /\ last' = Outcome("accept_envelope", err, envelope.ticket_id, a, e)
        /\ UNCHANGED <<tickets, agents, resolutions, calibration, alerts, sent, now, calls>>

\* The validation letting only the ticket's owner through
OwnerOrExpert_OwnerOnly(envelope, a) ==
    a = tickets[envelope.ticket_id].owner_id

\* Owner or assigned expert: the validation add_envelope_note and
\* complete_envelope share.
OwnerOrExpert(envelope, a) ==
    a \in {tickets[envelope.ticket_id].owner_id, envelope.assigned_to}

NoteEntry(t, e, a, vis) ==
    TimelineEntry(t, e, "note", vis, a, "note")

AddEnvelopeNote(e, a, vis) ==
    LET envelope == envelopes[e]
        err == IF OwnerOrExpert(envelope, a) THEN "ok" ELSE "NotAuthorized"
    IN  /\ Idle
        /\ IF err /= "ok"
           THEN UNCHANGED timeline
           ELSE /\ Len(timeline) < MaxTimeline
                /\ timeline' = Append(timeline, NoteEntry(envelope.ticket_id, e, a, vis))
        /\ last' = Outcome("add_envelope_note", err, envelope.ticket_id, a, e)
        /\ UNCHANGED <<tickets, agents, envelopes, resolutions, calibration, alerts,
                       sent, now, calls>>

\* complete_envelope without its state check
CompleteEnvelopeError_NoStateCheck(envelope, by) ==
    IF ~OwnerOrExpert(envelope, by) THEN "NotAuthorized" ELSE "ok"

\* complete_envelope without its authorization check
CompleteEnvelopeError_AnyAgent(envelope, by) ==
    IF envelope.status /= "active" THEN "InvalidEnvelopeState" ELSE "ok"

CompleteEnvelopeError(envelope, by) ==
    IF envelope.status /= "active" THEN "InvalidEnvelopeState"
    ELSE IF ~OwnerOrExpert(envelope, by) THEN "NotAuthorized"
    ELSE "ok"

CompletedEnvelope(envelope, summary) ==
    [envelope EXCEPT !.status = "completed", !.summary = summary]

EnvelopeCompletedEntry(t, by) ==
    TimelineEntry(t, 0, "envelope_completed", "internal", by, "envelope_completed")

\* _update_ticket_envelope_status counting only the active envelopes
UpdateTicketEnvelopeStatus_ActiveOnly(ticket, envs, t) ==
    LET has == \E e \in 1..Len(envs) : /\ envs[e].ticket_id = t
                                       /\ envs[e].status = "active"
    IN  [ticket EXCEPT
           !.has_active_envelopes = has,
           !.status = IF ~has /\ ticket.status = "waiting_internal"
                      THEN "in_progress" ELSE @,
           !.updated_at = now]

\* _update_ticket_envelope_status: the ticket re-read, its flag re-derived
\* from the envelopes as stored in envs, and saved.
UpdateTicketEnvelopeStatus(ticket, envs, t) ==
    LET active_envelopes == {e \in GetForTicket(envs, t) :
                               envs[e].status \in {"pending", "active"}}
        has == active_envelopes /= {}
    IN  [ticket EXCEPT
           !.has_active_envelopes = has,
           !.status = IF ~has /\ ticket.status = "waiting_internal"
                      THEN "in_progress" ELSE @,
           !.updated_at = now]

CompleteEnvelope(e, by, summary) ==
    LET envelope == envelopes[e]
        t == envelope.ticket_id
        err == CompleteEnvelopeError(envelope, by)
        envs == [envelopes EXCEPT ![e] = CompletedEnvelope(envelope, summary)]
    IN  /\ Idle
        /\ IF err /= "ok"
           THEN UNCHANGED <<envelopes, tickets, timeline>>
           ELSE /\ Len(timeline) < MaxTimeline
                /\ envelopes' = envs
                /\ timeline' = Append(timeline, EnvelopeCompletedEntry(t, by))
                /\ tickets' = [tickets EXCEPT ![t] =
                                 UpdateTicketEnvelopeStatus(tickets[t], envs, t)]
        /\ last' = Outcome("complete_envelope", err, t, by, e)
        /\ UNCHANGED <<agents, resolutions, calibration, alerts, sent, now, calls>>

----------------------------------------------------------------------------
(* ResolutionService *)

NoAmount == -1
Amounts == {NoAmount, 0, 90, 300, 600}

\* _determine_tier without the agent's personal limit
DetermineTier_TeamOnly(agent, amount) ==
    IF amount = NoAmount \/ amount = 0 THEN "agent"
    ELSE LET hasTeam == Len(agent.team_ids) > 0
             tier1_limit == IF hasTeam THEN Team(agent.team_ids[1]).tier1_limit ELSE 100
             tier2_limit == IF hasTeam THEN Team(agent.team_ids[1]).tier2_limit ELSE 500
         IN  IF amount <= tier1_limit THEN "agent"
             ELSE IF amount <= tier2_limit THEN "team_lead"
             ELSE "manager"

\* _determine_tier
DetermineTier(agent, amount) ==
    IF amount = NoAmount \/ amount = 0 THEN "agent"
    ELSE LET hasTeam == Len(agent.team_ids) > 0
             tier1_limit == IF hasTeam THEN Team(agent.team_ids[1]).tier1_limit ELSE 100
             tier2_limit == IF hasTeam THEN Team(agent.team_ids[1]).tier2_limit ELSE 500
             effective_tier1 == Min(tier1_limit, agent.empowerment_limit)
         IN  IF amount <= effective_tier1 THEN "agent"
             ELSE IF amount <= tier2_limit THEN "team_lead"
             ELSE "manager"

\* A resolution stored as approved by its author whatever its tier
Resolution_SelfApproved(t, a, amount, tier) ==
    [ticket_id |-> t, agent_id |-> a, amount |-> amount, empowerment_tier |-> tier,
     approved_by |-> a, approved_at |-> now,
     calibration_status |-> IF tier = "manager" THEN "pending" ELSE "not_required"]

Resolution(t, a, amount, tier) ==
    [ticket_id |-> t, agent_id |-> a, amount |-> amount, empowerment_tier |-> tier,
     approved_by |-> IF tier = "agent" THEN a ELSE None,
     approved_at |-> IF tier = "agent" THEN now ELSE NoTime,
     calibration_status |-> IF tier = "manager" THEN "pending" ELSE "not_required"]

ResolutionEntry(resolution) ==
    TimelineEntry(resolution.ticket_id, 0, "resolution", "internal",
                  resolution.agent_id, "resolution")

CalibrationFlags == {"physical_damage", "social_media", "legal"}

\* _check_flag_calibration without its break: one item for every calibration
\* flag
RECURSIVE FlagCalibrationItems_EveryFlag(_, _)
FlagCalibrationItems_EveryFlag(flags, id) ==
    IF flags = <<>> THEN <<>>
    ELSE (IF Head(flags) \in {"physical_damage", "social_media", "legal"}
          THEN <<[resolution_id |-> id, reason |-> <<"flagged", Head(flags)>>]>>
          ELSE <<>>) \o FlagCalibrationItems_EveryFlag(Tail(flags), id)

\* _check_flag_calibration: one item for the first calibration flag, if any
FlagCalibrationItems(flags, id) ==
    LET hits == {i \in 1..Len(flags) : flags[i] \in CalibrationFlags}
    IN  IF hits = {} THEN <<>>
        ELSE LET first == CHOOSE i \in hits : \A j \in hits : i <= j
             IN  <<[resolution_id |-> id, reason |-> <<"flagged", flags[first]>>]>>

Tier3Items(tier, id) ==
    IF tier = "manager"
    THEN <<[resolution_id |-> id, reason |-> <<"tier3">>]>>
    ELSE <<>>

CreateResolution(t, a, amount) ==
    LET ticket == tickets[t]
        err == IF ticket.owner_id /= a THEN "NotOwner" ELSE "ok"
        tier == DetermineTier(agents[a], amount)
        id == Len(resolutions) + 1
        resolution == Resolution(t, a, amount, tier)
    IN  /\ Idle
        /\ IF err /= "ok"
           THEN UNCHANGED <<resolutions, calibration, timeline>>
           ELSE /\ Len(resolutions) < MaxResolutions
                /\ tier = "agent" => Len(timeline) < MaxTimeline
                /\ resolutions' = Append(resolutions, resolution)
                /\ timeline' = IF tier = "agent"
                               THEN Append(timeline, ResolutionEntry(resolution))
                               ELSE timeline
                /\ calibration' = calibration \o Tier3Items(tier, id)
                                    \o FlagCalibrationItems(ticket.flags, id)
        /\ last' = Outcome("create_resolution", err, t, a, 0)
        /\ UNCHANGED <<tickets, agents, envelopes, alerts, sent, now, calls>>

\* approve_resolution whose rejection also withdraws an earlier approval
ApprovedResolution_RejectClears(resolution, approver, approved) ==
    IF approved
    THEN [resolution EXCEPT !.approved_by = approver, !.approved_at = now]
    ELSE [resolution EXCEPT !.calibration_status = "rejected",
                            !.approved_by = None, !.approved_at = NoTime]

ApprovedResolution(resolution, approver, approved) ==
    IF approved
    THEN [resolution EXCEPT !.approved_by = approver, !.approved_at = now]
    ELSE [resolution EXCEPT !.calibration_status = "rejected"]

ApproveResolution(r, approver, approved) ==
    LET resolution == resolutions[r]
        saved == ApprovedResolution(resolution, approver, approved)
    IN  /\ Idle
        /\ approved => Len(timeline) < MaxTimeline
        /\ resolutions' = [resolutions EXCEPT ![r] = saved]
        /\ timeline' = IF approved
                       THEN Append(timeline, ResolutionEntry(saved))
                       ELSE timeline
        /\ last' = Outcome(IF approved THEN "approve_resolution"
                           ELSE "reject_resolution",
                           "ok", resolution.ticket_id, approver, 0)
        /\ UNCHANGED <<tickets, agents, envelopes, calibration, alerts, sent, now, calls>>

----------------------------------------------------------------------------
(* services/timeline.py *)

\* timeline_repo.get_for_ticket: the entries of the ticket, oldest first
EntriesForTicket(t) ==
    LET OfTicket(entry) == entry.ticket_id = t
    IN  SelectSeq(timeline, OfTicket)

\* timeline_repo.get_for_envelope: the entries of one envelope of the ticket
EntriesForEnvelope(t, e) ==
    LET OfEnvelope(entry) == entry.ticket_id = t /\ entry.envelope_id = e
    IN  SelectSeq(timeline, OfEnvelope)

\* viewing_envelope_id 0 is no envelope
CanView(entry, viewer_id, viewer_type, viewing_envelope_id) ==
    IF viewer_type = "customer" THEN entry.visibility = "public"
    ELSE IF entry.visibility \in {"public", "internal"} THEN TRUE
    ELSE IF entry.visibility = "envelope_only"
         THEN IF viewing_envelope_id /= 0
              THEN entry.envelope_id = viewing_envelope_id
              ELSE TRUE
    ELSE FALSE

\* What a read leaves behind: the call and the entries it returned.  The sort
\* by created_at keeps the entries in the order they were added.
View(op, t, viewer_id, viewer_type, envelope_id, entries) ==
    [op |-> op, result |-> "ok", ticket |-> t, agent |-> viewer_id,
     envelope |-> envelope_id, viewer_type |-> viewer_type, entries |-> entries]

GetTimeline(t, viewer_id, viewer_type, envelope_id) ==
    LET entries == IF envelope_id /= 0 THEN EntriesForEnvelope(t, envelope_id)
                   ELSE EntriesForTicket(t)
        Visible(entry) == CanView(entry, viewer_id, viewer_type, envelope_id)
    IN  /\ Idle
        /\ last' = View("get_timeline", t, viewer_id, viewer_type, envelope_id,
                        SelectSeq(entries, Visible))
        /\ UNCHANGED <<tickets, agents, envelopes, timeline, resolutions,
                       calibration, alerts, sent, now, calls>>

GetCustomerView(t) ==
    LET Public(entry) == entry.visibility = "public"
    IN  /\ Idle
        /\ last' = View("get_customer_view", t, None, "customer", 0,
                        SelectSeq(EntriesForTicket(t), Public))
        /\ UNCHANGED <<tickets, agents, envelopes, timeline, resolutions,
                       calibration, alerts, sent, now, calls>>

----------------------------------------------------------------------------
(* services/alert.py *)

AlertRule(condition, time_value, time_unit, trigger, recipients) ==
    [condition |-> condition, time_value |-> time_value, time_unit |-> time_unit,
     trigger |-> trigger, recipients |-> recipients]

\* AlertRule.duration taking minutes for hours and hours for minutes
Duration_UnitsSwapped(rule) ==
    IF rule.time_unit = "minutes" THEN rule.time_value * 60 ELSE rule.time_value

\* AlertRule.duration, in minutes
Duration(rule) ==
    IF rule.time_unit = "minutes" THEN rule.time_value ELSE rule.time_value * 60

AlertLevel(level, rules) == [level |-> level, rules |-> rules]

PriorityAlertConfig(name, due, levels) ==
    [priority_name |-> name, due_time_hours |-> due, alert_levels |-> levels,
     use_business_time |-> TRUE, business_start_hour |-> 8,
     business_end_hour |-> 18, business_days |-> {0, 1, 2, 3, 4}]

Alert(t, condition, level, at, recipients) ==
    [ticket_id |-> t, condition |-> condition, level |-> level,
     triggered_at |-> at, acknowledged_at |-> NoTime, acknowledged_by |-> None,
     recipients_notified |-> recipients]

create_critical_config ==
    PriorityAlertConfig("critical", 1, <<
      AlertLevel(1, <<
        AlertRule("not_assigned", 5, "minutes", "after_creation", {"group_manager"}),
        AlertRule("not_updated", 15, "minutes", "since_last_update", {"tech"}),
        AlertRule("not_completed", 30, "minutes", "before_due_date", {"tech"})>>),
      AlertLevel(2, <<
        AlertRule("not_assigned", 10, "hours", "after_creation", {"group_manager"}),
        AlertRule("not_updated", 30, "minutes", "since_last_update",
                  {"tech", "supervisor"}),
        AlertRule("not_completed", 15, "minutes", "before_due_date",
                  {"tech", "supervisor"})>>),
      AlertLevel(3, <<
        AlertRule("not_assigned", 15, "hours", "after_creation", {"group_manager"}),
        AlertRule("not_updated", 45, "minutes", "since_last_update",
                  {"tech", "supervisor", "group_manager"}),
        AlertRule("not_completed", 0, "minutes", "before_due_date",
                  {"tech", "supervisor", "group_manager"})>>)>>)

create_high_config ==
    PriorityAlertConfig("high", 4, <<
      AlertLevel(1, <<
        AlertRule("not_assigned", 15, "minutes", "after_creation", {"group_manager"}),
        AlertRule("not_updated", 1, "hours", "since_last_update", {"tech"}),
        AlertRule("not_completed", 1, "hours", "before_due_date", {"tech"})>>)>>)

create_medium_config == PriorityAlertConfig("medium", 8, <<>>)

create_low_config == PriorityAlertConfig("low", 24, <<>>)

\* alert_config_repo.get_for_priority: the default configuration of a priority
GetForPriority(priority) ==
    CASE priority = "critical" -> create_critical_config
      [] priority = "high" -> create_high_config
      [] priority = "medium" -> create_medium_config
      [] OTHER -> create_low_config

\* The rules of a configuration in the order the two loops visit them
RECURSIVE FlatRules(_)
FlatRules(levels) ==
    IF levels = <<>> THEN <<>>
    ELSE [i \in 1..Len(Head(levels).rules) |->
            [level |-> Head(levels).level, rule |-> Head(levels).rules[i]]]
         \o FlatRules(Tail(levels))

\* business_calendar.business_time_between: the minutes of [start, end) that
\* lie between start_hour and end_hour of a business day (day 0 is a Monday)
RECURSIVE BusinessTimeFrom(_, _, _, _, _, _)
BusinessTimeFrom(day, start, end, start_hour, end_hour, business_days) ==
    IF day * 1440 >= end THEN 0
    ELSE LET open == Max(start, day * 1440 + start_hour * 60)
             close == Min(end, day * 1440 + end_hour * 60)
             today == IF (day % 7) \in business_days /\ close > open
                      THEN close - open ELSE 0
         IN  today + BusinessTimeFrom(day + 1, start, end, start_hour, end_hour,
                                      business_days)

BusinessTimeBetween(start, end, start_hour, end_hour, business_days) ==
    BusinessTimeFrom(start \div 1440, start, end, start_hour, end_hour,
                     business_days)

CalcBusinessTime(start, end, config) ==
    IF ~config.use_business_time THEN end - start
    ELSE BusinessTimeBetween(start, end, config.business_start_hour,
                             config.business_end_hour, config.business_days)

\* _should_trigger without the owner test of not_assigned
ShouldTrigger_NoOwnerTest(ticket, rule, config, at) ==
    CASE rule.condition = "not_assigned" ->
           IF rule.trigger = "after_creation"
           THEN CalcBusinessTime(ticket.created_at, at, config) >= Duration(rule)
           ELSE FALSE
      [] rule.condition = "not_updated" ->
           IF rule.trigger = "since_last_update"
           THEN CalcBusinessTime(ticket.updated_at, at, config) >= Duration(rule)
           ELSE FALSE
      [] rule.condition = "not_completed" ->
           IF ticket.resolved_at /= NoTime THEN FALSE
           ELSE IF rule.trigger = "before_due_date"
                THEN IF ticket.sla_breach_at = NoTime THEN FALSE
                     ELSE ticket.sla_breach_at - at <= Duration(rule)
                ELSE FALSE
      [] OTHER -> FALSE

\* _should_trigger without the resolved test of not_completed
ShouldTrigger_NoResolvedTest(ticket, rule, config, at) ==
    CASE rule.condition = "not_assigned" ->
           IF ticket.owner_id /= None THEN FALSE
           ELSE IF rule.trigger = "after_creation"
                THEN CalcBusinessTime(ticket.created_at, at, config) >= Duration(rule)
                ELSE FALSE
      [] rule.condition = "not_updated" ->
           IF rule.trigger = "since_last_update"
           THEN CalcBusinessTime(ticket.updated_at, at, config) >= Duration(rule)
           ELSE FALSE
      [] rule.condition = "not_completed" ->
           IF rule.trigger = "before_due_date"
           THEN IF ticket.sla_breach_at = NoTime THEN FALSE
                ELSE ticket.sla_breach_at - at <= Duration(rule)
           ELSE FALSE
      [] OTHER -> FALSE

ShouldTrigger(ticket, rule, config, at) ==
    CASE rule.condition = "not_assigned" ->
           IF ticket.owner_id /= None THEN FALSE
           ELSE IF rule.trigger = "after_creation"
                THEN CalcBusinessTime(ticket.created_at, at, config) >= Duration(rule)
                ELSE FALSE
      [] rule.condition = "not_updated" ->
           IF rule.trigger = "since_last_update"
           THEN CalcBusinessTime(ticket.updated_at, at, config) >= Duration(rule)
           ELSE FALSE
      [] rule.condition = "not_completed" ->
           IF ticket.resolved_at /= NoTime THEN FALSE
           ELSE IF rule.trigger = "before_due_date"
                THEN IF ticket.sla_breach_at = NoTime THEN FALSE
                     ELSE ticket.sla_breach_at - at <= Duration(rule)
                ELSE FALSE
      [] OTHER -> FALSE

\* alert_repo.get_active: the unacknowledged alerts of (ticket, condition, level)
GetActive(al, t, condition, level) ==
    {i \in 1..Len(al) : /\ al[i].ticket_id = t
                        /\ al[i].condition = condition
                        /\ al[i].level = level
                        /\ al[i].acknowledged_at = NoTime}

\* The supervisor of the first team of the owner that has one
FirstSupervisor(team_ids) ==
    LET withSup == {i \in 1..Len(team_ids) : Team(team_ids[i]).supervisor_id /= None}
    IN  IF withSup = {} THEN {}
        ELSE {Team(team_ids[CHOOSE i \in withSup : \A j \in withSup : i <= j]).supervisor_id}

\* The list _resolve_recipients collects, as a bag: the owner for tech, the
\* supervisor for supervisor, nobody for group_manager
RecipientIds(ticket, ags, recipient_types) ==
    SetToBag(IF "tech" \in recipient_types /\ ticket.owner_id /= None
             THEN {ticket.owner_id} ELSE {})
    (+)
    SetToBag(IF "supervisor" \in recipient_types /\ ticket.owner_id /= None
             THEN FirstSupervisor(ags[ticket.owner_id].team_ids) ELSE {})

\* list(set(recipient_ids))
Deduplicate(recipient_ids) == SetToBag(BagToSet(recipient_ids))

\* _resolve_recipients returning the list as collected
ResolveRecipients_NoDedup(ticket, ags, recipient_types) ==
    RecipientIds(ticket, ags, recipient_types)

ResolveRecipients(ticket, ags, recipient_types) ==
    Deduplicate(RecipientIds(ticket, ags, recipient_types))

Notification(agent_id, t, condition, level) ==
    [agent_id |-> agent_id, ticket_id |-> t, condition |-> condition, level |-> level]

\* _trigger_alert on the alert store and the notifications sent so far: one
\* send_alert for every element of recipient_ids
TriggerAlert(st, t, ticket, ags, rule, level, at) ==
    LET recipient_ids == ResolveRecipients(ticket, ags, rule.recipients)
    IN  [alerts |-> Append(st.alerts, Alert(t, rule.condition, level, at, recipient_ids)),
         sent |-> st.sent (+)
                  [n \in {Notification(a, t, rule.condition, level) :
                            a \in BagToSet(recipient_ids)}
                     |-> CopiesIn(n.agent_id, recipient_ids)]]

\* check_ticket_alerts triggering a rule whatever alert exists
ShouldAlert_NoLookup(al, t, ticket, r, config, at) ==
    ShouldTrigger(ticket, r.rule, config, at)

\* A rule raises an alert when its predicate holds and no alert of its
\* (ticket, condition, level) is active
ShouldAlert(al, t, ticket, r, config, at) ==
    /\ ShouldTrigger(ticket, r.rule, config, at)
    /\ GetActive(al, t, r.rule.condition, r.level) = {}

\* The two loops of check_ticket_alerts over the rules that are left
RECURSIVE CheckRules(_, _, _, _, _, _, _)
CheckRules(st, t, ticket, ags, config, rules, at) ==
    IF rules = <<>> THEN st
    ELSE LET r == Head(rules)
             fire == ShouldAlert(st.alerts, t, ticket, r, config, at)
         IN  CheckRules(IF fire THEN TriggerAlert(st, t, ticket, ags, r.rule, r.level, at)
                        ELSE st,
                        t, ticket, ags, config, Tail(rules), at)

CheckedTicketWith(st, t, config) ==
    CheckRules(st, t, tickets[t], agents, config, FlatRules(config.alert_levels), now)

CheckedTicket(st, t) ==
    CheckedTicketWith(st, t, GetForPriority(tickets[t].priority))

CheckTicketAlerts(t) ==
    LET st == CheckedTicket([alerts |-> alerts, sent |-> sent], t)
    IN  /\ Idle
        /\ Len(st.alerts) <= MaxAlerts
        /\ alerts' = st.alerts
        /\ sent' = st.sent
        /\ last' = Outcome("check_ticket_alerts", "ok", t, None, 0)
        /\ UNCHANGED <<tickets, agents, envelopes, timeline, resolutions,
                       calibration, now, calls>>

\* A configuration with business time switched off: _calc_business_time
\* returns end - start
WallClock(config) == [config EXCEPT !.use_business_time = FALSE]

\* check_ticket_alerts with the default matrices stored with
\* use_business_time = False, and room for every alert of one ticket
CheckTicketAlertsWallClock(t) ==
    LET config == WallClock(GetForPriority(tickets[t].priority))
        st == CheckedTicketWith([alerts |-> alerts, sent |-> sent], t, config)
    IN  /\ Idle
        /\ Len(st.alerts) <= MaxAlerts + 5
        /\ alerts' = st.alerts
        /\ sent' = st.sent
        /\ last' = Outcome("check_ticket_alerts", "ok", t, None, 0)
        /\ UNCHANGED <<tickets, agents, envelopes, timeline, resolutions,
                       calibration, now, calls>>

\* ticket_repo.get_open: the tickets that are neither resolved nor closed
GetOpen == {t \in Tickets : tickets[t].status \notin {"resolved", "closed"}}

Orders(S) ==
    {o \in [1..Cardinality(S) -> S] : \A i, j \in DOMAIN o : o[i] = o[j] => i = j}

RECURSIVE CheckTickets(_, _)
CheckTickets(st, order) ==
    IF order = <<>> THEN st
    ELSE CheckTickets(CheckedTicket(st, Head(order)), Tail(order))

CheckAllOpenTickets ==
    \E order \in Orders(GetOpen) :
      LET st == CheckTickets([alerts |-> alerts, sent |-> sent], order)
      IN  /\ Idle
          /\ Len(st.alerts) <= MaxAlerts
          /\ alerts' = st.alerts
          /\ sent' = st.sent
          /\ last' = Outcome("check_all_open_tickets", "ok", None, None, 0)
          /\ UNCHANGED <<tickets, agents, envelopes, timeline, resolutions,
                         calibration, now, calls>>

AcknowledgeAlert(i, a) ==
    /\ Idle
    /\ i \in 1..Len(alerts)
    /\ alerts' = [alerts EXCEPT ![i] = [@ EXCEPT !.acknowledged_at = now,
                                                  !.acknowledged_by = a]]
    /\ last' = Outcome("acknowledge_alert", "ok", alerts[i].ticket_id, a, 0)
    /\ UNCHANGED <<tickets, agents, envelopes, timeline, resolutions,
                   calibration, sent, now, calls>>

\* datetime.utcnow() moves on to a later moment
Tick(at) ==
    /\ Idle
    /\ at > now
    /\ now' = at
    /\ UNCHANGED <<tickets, agents, envelopes, timeline, resolutions,
                   calibration, alerts, sent, calls, last>>

----------------------------------------------------------------------------
(* The handlers split at their awaits.  A call reads copies, works on them  *)
(* and saves them; other calls run between two awaits.                      *)

\* Every call in flight can still append its timeline entry.
RoomInTimeline ==
    Len(timeline) + Cardinality({p \in Procs : InFlight(p)}) < MaxTimeline

\* accept_ticket up to its first await: ticket_repo.get
AcceptTicketGetTicket(p, t, a) ==
    /\ ~InFlight(p)
    /\ RoomInTimeline
    /\ calls' = [calls EXCEPT ![p] =
                   Frame("accept_ticket", "get_agent", "none", t, a, 0,
                         tickets[t], None, None)]
    /\ UNCHANGED <<tickets, agents, envelopes, timeline, resolutions, calibration,
                   alerts, sent, now, last>>

\* agent_repo.get, the three validations and the changes to the two copies
AcceptTicketGetAgent(p) ==
    LET f == calls[p]
        agent == agents[f.agent_id]
        err == AcceptTicketError(f.ticket, agent)
    IN  /\ f.op = "accept_ticket" /\ f.pc = "get_agent"
        /\ IF err /= "ok"
           THEN /\ calls' = [calls EXCEPT ![p] = Done(f, err)]
                /\ last' = Outcome("accept_ticket", err, f.ticket_id, f.agent_id, 0)
           ELSE /\ calls' = [calls EXCEPT ![p] =
                               [f EXCEPT !.pc = "save_ticket",
                                         !.ticket = AcceptedTicket(f.ticket, f.agent_id),
                                         !.agent = AcceptedAgent(agent)]]
                /\ UNCHANGED last
        /\ UNCHANGED <<tickets, agents, envelopes, timeline, resolutions, calibration,
                       alerts, sent, now>>

\* ticket_repo.save(ticket)
AcceptTicketSaveTicket(p) ==
    LET f == calls[p]
    IN  /\ f.op = "accept_ticket" /\ f.pc = "save_ticket"
        /\ tickets' = [tickets EXCEPT ![f.ticket_id] = f.ticket]
        /\ calls' = [calls EXCEPT ![p] = [f EXCEPT !.pc = "save_agent"]]
        /\ UNCHANGED <<agents, envelopes, timeline, resolutions, calibration,
                       alerts, sent, now, last>>

\* agent_repo.save(agent)
AcceptTicketSaveAgent(p) ==
    LET f == calls[p]
    IN  /\ f.op = "accept_ticket" /\ f.pc = "save_agent"
        /\ agents' = [agents EXCEPT ![f.agent_id] = f.agent]
        /\ calls' = [calls EXCEPT ![p] = [f EXCEPT !.pc = "timeline"]]
        /\ UNCHANGED <<tickets, envelopes, timeline, resolutions, calibration,
                       alerts, sent, now, last>>

\* timeline_repo.add and the return
AcceptTicketTimeline(p) ==
    LET f == calls[p]
    IN  /\ f.op = "accept_ticket" /\ f.pc = "timeline"
        /\ timeline' = Append(timeline, AcceptEntry(f.ticket_id))
        /\ calls' = [calls EXCEPT ![p] = Done(f, "ok")]
        /\ last' = Outcome("accept_ticket", "ok", f.ticket_id, f.agent_id, 0)
        /\ UNCHANGED <<tickets, agents, envelopes, resolutions, calibration,
                       alerts, sent, now>>

\* accept_envelope up to its first await: envelope_repo.get
AcceptEnvelopeGetEnvelope(p, e, a) ==
    /\ ~InFlight(p)
    /\ RoomInTimeline
    /\ calls' = [calls EXCEPT ![p] =
                   Frame("accept_envelope", "get_agent", "none",
                         envelopes[e].ticket_id, a, e, None, None, envelopes[e])]
    /\ UNCHANGED <<tickets, agents, envelopes, timeline, resolutions, calibration,
                   alerts, sent, now, last>>

\* agent_repo.get, the validations and the changes to the copy
AcceptEnvelopeGetAgent(p) ==
    LET f == calls[p]
        err == AcceptEnvelopeError(f.envelope, f.agent_id, agents[f.agent_id])
    IN  /\ f.op = "accept_envelope" /\ f.pc = "get_agent"
        /\ IF err /= "ok"
           THEN /\ calls' = [calls EXCEPT ![p] = Done(f, err)]
                /\ last' = Outcome("accept_envelope", err, f.ticket_id, f.agent_id,
                                   f.envelope_id)
           ELSE /\ calls' = [calls EXCEPT ![p] =
                               [f EXCEPT !.pc = "save_envelope",
                                         !.envelope =
                                            AcceptedEnvelope(f.envelope, f.agent_id)]]
                /\ UNCHANGED last
        /\ UNCHANGED <<tickets, agents, envelopes, timeline, resolutions, calibration,
                       alerts, sent, now>>

\* envelope_repo.save(envelope)
AcceptEnvelopeSave(p) ==
    LET f == calls[p]
    IN  /\ f.op = "accept_envelope" /\ f.pc = "save_envelope"
        /\ envelopes' = [envelopes EXCEPT ![f.envelope_id] = f.envelope]
        /\ calls' = [calls EXCEPT ![p] = [f EXCEPT !.pc = "timeline"]]
        /\ UNCHANGED <<tickets, agents, timeline, resolutions, calibration,
                       alerts, sent, now, last>>

\* timeline_repo.add and the return
AcceptEnvelopeTimeline(p) ==
    LET f == calls[p]
    IN  /\ f.op = "accept_envelope" /\ f.pc = "timeline"
        /\ timeline' = Append(timeline,
                              EnvelopeAcceptedEntry(f.ticket_id, f.envelope_id,
                                                    f.agent_id))
        /\ calls' = [calls EXCEPT ![p] = Done(f, "ok")]
        /\ last' = Outcome("accept_envelope", "ok", f.ticket_id, f.agent_id,
                           f.envelope_id)
        /\ UNCHANGED <<tickets, agents, envelopes, resolutions, calibration,
                       alerts, sent, now>>

\* The frame of a check_ticket_alerts call: the ticket, the configuration and
\* the time it has read, and the rule its loops have reached
CheckFrame(pc, result, t, ticket, at, rule) ==
    [op |-> "check_ticket_alerts", pc |-> pc, result |-> result, ticket_id |-> t,
     agent_id |-> None, envelope_id |-> 0, ticket |-> ticket, agent |-> None,
     envelope |-> None, at |-> at, rule |-> rule]

\* The next rule from position k on whose predicate holds, 0 if there is none
NextTriggering(f, rules, config) ==
    LET ks == {k \in f.rule..Len(rules) :
                 ShouldTrigger(f.ticket, rules[k].rule, config, f.at)}
    IN  IF ks = {} THEN 0 ELSE CHOOSE k \in ks : \A j \in ks : k <= j

\* check_ticket_alerts up to its first await: ticket_repo.get
CheckTicketAlertsGetTicket(p, t) ==
    /\ ~InFlight(p)
    /\ calls' = [calls EXCEPT ![p] = CheckFrame("get_active", "none", t, tickets[t], now, 1)]
    /\ UNCHANGED <<tickets, agents, envelopes, timeline, resolutions, calibration,
                   alerts, sent, now, last>>

\* ... the loops up to the next alerts.get_active, and its answer
CheckTicketAlertsGetActive(p) ==
    /\ calls[p].op = "check_ticket_alerts" /\ calls[p].pc = "get_active"
    /\ LET f == calls[p]
           config == GetForPriority(f.ticket.priority)
           rules == FlatRules(config.alert_levels)
           k == NextTriggering(f, rules, config)
       IN  IF k = 0
           THEN /\ calls' = [calls EXCEPT ![p] = Done(f, "ok")]
                /\ last' = Outcome("check_ticket_alerts", "ok", f.ticket_id, None, 0)
           ELSE /\ calls' = [calls EXCEPT ![p] =
                       IF GetActive(alerts, f.ticket_id, rules[k].rule.condition,
                                    rules[k].level) = {}
                       THEN [f EXCEPT !.rule = k, !.pc = "trigger"]
                       ELSE [f EXCEPT !.rule = k + 1]]
                /\ UNCHANGED last
    /\ UNCHANGED <<tickets, agents, envelopes, timeline, resolutions, calibration,
                   alerts, sent, now>>

\* ... _trigger_alert: alerts.save and the notifications
CheckTicketAlertsTrigger(p) ==
    /\ calls[p].op = "check_ticket_alerts" /\ calls[p].pc = "trigger"
    /\ Len(alerts) < MaxAlerts
    /\ LET f == calls[p]
           config == GetForPriority(f.ticket.priority)
           r == FlatRules(config.alert_levels)[f.rule]
           st == TriggerAlert([alerts |-> alerts, sent |-> sent], f.ticket_id,
                              f.ticket, agents, r.rule, r.level, now)
       IN  /\ alerts' = st.alerts
           /\ sent' = st.sent
           /\ calls' = [calls EXCEPT ![p] = [f EXCEPT !.rule = f.rule + 1,
                                                     !.pc = "get_active"]]
    /\ UNCHANGED <<tickets, agents, envelopes, timeline, resolutions, calibration,
                   now, last>>

----------------------------------------------------------------------------
(* PriorityService *)

\* Multipliers are kept in tenths (1.3 is 13), times in minutes, and scores in
\* hundredths (120.0 is 12000), so that the arithmetic is exact.
BASE_SCORES == [critical |-> 100, high |-> 70, medium |-> 40, low |-> 10]

MultiplierNames == {"sla_proximity", "vip_customer", "escalation_pending",
                    "staleness", "case_flags", "customer_waiting"}

\* A ticket with the fields calculate_score reads: requester_tier and
\* company_tier stand for contact_repo.get(requester_id).tier and
\* company_repo.get(company_id).tier.
ScoredTicket(priority, status, hasEnv, created, updated, breach, first, flags, tier, company) ==
    [priority |-> priority, owner_id |-> "a1", status |-> status,
     has_active_envelopes |-> hasEnv,
     created_at |-> created, updated_at |-> updated, sla_breach_at |-> breach,
     resolved_at |-> NoTime, flags |-> flags, first_response_at |-> first,
     requester_tier |-> tier, company_id |-> company[1],
     company_tier |-> company[2]]

sla_multiplier(ticket, at) ==
    IF ticket.sla_breach_at = NoTime THEN 10
    ELSE LET minutes == ticket.sla_breach_at - at
         IN  IF minutes < 0 THEN 30
             ELSE IF minutes < 60 THEN 25
             ELSE IF minutes < 4 * 60 THEN 20
             ELSE IF minutes < 12 * 60 THEN 17
             ELSE IF minutes < 24 * 60 THEN 13
             ELSE 10

vip_multiplier(ticket) ==
    IF ticket.requester_tier = "vip" THEN 15
    ELSE IF ticket.requester_tier = "premium" THEN 12
    ELSE IF ticket.company_id /= None /\ ticket.company_tier = "vip" THEN 15
    ELSE IF ticket.company_id /= None /\ ticket.company_tier = "premium" THEN 12
    ELSE 10

\* _escalation_multiplier trusting the ticket's flag alone
escalation_multiplier_FlagOnly(ticket, envs, t) ==
    IF ~ticket.has_active_envelopes THEN 10 ELSE 13

escalation_multiplier(ticket, envs, t) ==
    IF ~ticket.has_active_envelopes THEN 10
    ELSE IF GetActiveForTicket(envs, t) /= {} THEN 13
    ELSE 10

staleness_multiplier(ticket, at) ==
    LET days_since_update == (at - ticket.updated_at) \div (24 * 60)
    IN  IF days_since_update > 14 THEN 14
        ELSE IF days_since_update > 7 THEN 13
        ELSE IF days_since_update > 3 THEN 12
        ELSE 10

flag_multiplier(ticket) ==
    IF SeqMember("social_media", ticket.flags) \/ SeqMember("legal", ticket.flags)
    THEN 15
    ELSE IF SeqMember("repeat_contact", ticket.flags) THEN 13
    ELSE 10

customer_waiting_multiplier(ticket, at) ==
    IF ticket.status /= "in_progress" THEN 10
    ELSE IF ticket.first_response_at /= NoTime THEN 10
    ELSE LET minutes_waiting == at - ticket.created_at
         IN  IF minutes_waiting > 4 * 60 THEN 14
             ELSE IF minutes_waiting > 2 * 60 THEN 12
             ELSE 10

\* The six factors of calculate_score, before the selection
Factors(ticket, envs, t, at) ==
    [k \in MultiplierNames |->
       CASE k = "sla_proximity"      -> sla_multiplier(ticket, at)
         [] k = "vip_customer"       -> vip_multiplier(ticket)
         [] k = "escalation_pending" -> escalation_multiplier(ticket, envs, t)
         [] k = "staleness"          -> staleness_multiplier(ticket, at)
         [] k = "case_flags"         -> flag_multiplier(ticket)
         [] OTHER                    -> customer_waiting_multiplier(ticket, at)]

\* calculate_score entering every factor in the breakdown
Multipliers_All(ticket, envs, t, at) ==
    Factors(ticket, envs, t, at)

\* The multipliers dict of calculate_score: the factors above 1.0
Multipliers(ticket, envs, t, at) ==
    LET all == Factors(ticket, envs, t, at)
    IN  [k \in {n \in MultiplierNames : all[n] > 10} |-> all[k]]

RECURSIVE ProductOf(_, _)
ProductOf(m, keys) ==
    IF keys = {} THEN 1
    ELSE LET k == CHOOSE n \in keys : TRUE
         IN  m[k] * ProductOf(m, keys \ {k})

\* base * total_multiplier in millionths: an entry of the dict multiplies by
\* its tenths, a factor that is not in the dict by 1.0
Millionths(base, multipliers) ==
    base * ProductOf([k \in MultiplierNames |->
                        IF k \in DOMAIN multipliers THEN multipliers[k] ELSE 10],
                     MultiplierNames)

\* round(calculated, 2), in hundredths. The product is a binary float: where
\* the decimal product lies exactly between two hundredths the float lies on
\* either side of it, and the result is either neighbour.
Round2(millionths) ==
    IF millionths % 10000 = 5000
    THEN {millionths \div 10000, millionths \div 10000 + 1}
    ELSE {(millionths + 5000) \div 10000}

PriorityScore(t, base, multipliers, calculated) ==
    [ticket_id |-> t, base_priority |-> base, multipliers |-> multipliers,
     calculated_score |-> calculated]

CalculateScore(t) ==
    LET ticket == tickets[t]
        base == BASE_SCORES[ticket.priority]
        multipliers == Multipliers(ticket, envelopes, t, now)
    IN  /\ Idle
        /\ \E calculated \in Round2(Millionths(base, multipliers)) :
             last' = [op |-> "calculate_score", result |-> "ok", ticket |-> t,
                      agent |-> None, envelope |-> 0,
                      score |-> PriorityScore(t, base, multipliers, calculated)]
        /\ UNCHANGED <<tickets, agents, envelopes, timeline, resolutions,
                       calibration, alerts, sent, now, calls>>

\* ticket_repo.get_for_agent: the tickets the agent owns
GetForAgent(a) == {t \in Tickets : tickets[t].owner_id = a}

\* The scores calculate_score can return for the ticket
ScoresOf(t) ==
    LET ticket == tickets[t]
        base == BASE_SCORES[ticket.priority]
        multipliers == Multipliers(ticket, envelopes, t, now)
    IN  {PriorityScore(t, base, multipliers, c) :
           c \in Round2(Millionths(base, multipliers))}

\* The bucket chosen by the score and the status alone
Bucket_NoSla(item) ==
    IF \/ item.score.calculated_score >= 80 * 100
       \/ tickets[item.ticket].status = "waiting_customer"
    THEN "needs_attention"
    ELSE IF tickets[item.ticket].status = "waiting_internal"
    THEN "waiting_on_others"
    ELSE "on_track"

\* The bucket of an item of the sorted list
Bucket(item) ==
    IF \/ item.score.calculated_score >= 80 * 100
       \/ "sla_proximity" \in DOMAIN item.score.multipliers
       \/ tickets[item.ticket].status = "waiting_customer"
    THEN "needs_attention"
    ELSE IF tickets[item.ticket].status = "waiting_internal"
    THEN "waiting_on_others"
    ELSE "on_track"

\* The items of the list that fall in the bucket, in the order of the list
RECURSIVE InBucket(_, _)
InBucket(items, bucket) ==
    IF items = <<>> THEN <<>>
    ELSE IF Bucket(Head(items)) = bucket
    THEN <<Head(items)>> \o InBucket(Tail(items), bucket)
    ELSE InBucket(Tail(items), bucket)

\* scored.sort(key = calculated_score, reverse = True): the sort is stable, so
\* items of equal score stay in the order the repository returned them, which
\* can be any order.
SortedByScore(scores) ==
    {[i \in DOMAIN o |-> [ticket |-> o[i], score |-> scores[o[i]]]] :
       o \in {q \in Orders(DOMAIN scores) :
                \A i, j \in DOMAIN q :
                  i < j => scores[q[i]].calculated_score
                             >= scores[q[j]].calculated_score}}

WorkQueue(scored, limit) ==
    LET shown == SubSeq(scored, 1, Min(limit, Len(scored)))
    IN  [needs_attention |-> InBucket(shown, "needs_attention"),
         waiting_on_others |-> InBucket(shown, "waiting_on_others"),
         on_track |-> InBucket(shown, "on_track"),
         total |-> Len(scored)]

GetWorkQueue(a, limit) ==
    LET open == {t \in GetForAgent(a) :
                   tickets[t].status \notin {"closed", "resolved"}}
    IN  /\ Idle
        /\ \E scores \in {f \in [open -> UNION {ScoresOf(t) : t \in open}] :
                            \A t \in open : f[t] \in ScoresOf(t)} :
             \E scored \in SortedByScore(scores) :
               last' = [op |-> "get_work_queue", result |-> "ok", ticket |-> None,
                        agent |-> a, envelope |-> 0, limit |-> limit,
                        queue |-> WorkQueue(scored, limit)]
        /\ UNCHANGED <<tickets, agents, envelopes, timeline, resolutions,
                       calibration, alerts, sent, now, calls>>

----------------------------------------------------------------------------
(* Inputs *)

Routings == {<<"T1", None>>, <<None, "a2">>, <<"T1", "a2">>, <<None, None>>}
Visibilities == {"envelope_only", "internal", "public"}
SettableStatuses == {"waiting_customer", "resolved", "closed"}

EnvelopeStep(T, G, R, V) ==
    \/ \E t \in T, by \in G, r \in R : CreateEnvelope(t, by, r[1], r[2])
    \/ \E e \in EnvelopeIds, a \in G : AcceptEnvelope(e, a)
    \/ \E e \in EnvelopeIds, a \in G, vis \in V : AddEnvelopeNote(e, a, vis)
    \/ \E e \in EnvelopeIds, by \in G : CompleteEnvelope(e, by, "summary")

ResolutionStep(T, G, M, A) ==
    \/ \E t \in T, a \in G, amount \in M : CreateResolution(t, a, amount)
    \/ \E r \in 1..Len(resolutions), a \in A, approved \in BOOLEAN :
         ApproveResolution(r, a, approved)

(* Every handler of the three services, one call at a time, on one ticket:  *)
(* a1 accepts and works the ticket, a2 takes it over and releases it        *)
Next ==
    \/ AcceptTicket("t1", "a1")
    \/ \E type \in {"termination", "escalation"} :
         TransferOwnership("t1", "a2", type, "a1")
    \/ ReleaseOwnership("t1", "a2")
    \/ SetTicketStatus("t1", "a1", "resolved")
    \/ EnvelopeStep({"t1"}, {"a1"}, {<<"T1", None>>}, {"envelope_only"})
    \/ ResolutionStep({"t1"}, {"a1"}, {600}, {"a2"})

Spec == Init /\ [][Next]_vars

(* The resolution service on an accepted ticket *)
ResTimePoints == {Start + 10, Start + 20}

NextRes ==
    \/ AcceptTicket("t1", "a1")
    \/ ResolutionStep({"t1"}, {"a1"}, Amounts, {"a2", "a3"})
    \/ \E at \in ResTimePoints : Tick(at)

SpecRes == Init /\ [][NextRes]_vars

(* create_resolution by the owner, over the limits of the agent and of its *)
(* first team and over the amounts around them                             *)
TierLimits == {50, 100, 200, 600}
TierTeams == {<<>>, <<"T1">>, <<"T2", "T1">>, <<"T3">>}
TierFlags == {<<>>, <<"vip", "repeat_contact">>, <<"legal">>,
              <<"vip", "physical_damage", "social_media">>}
TierAmounts == {NoAmount, 0, 50, 51, 90, 100, 101, 150, 151, 200, 201, 260, 300,
                500, 501, 600}

InitTier ==
    /\ \E flags \in TierFlags :
         tickets = [t \in Tickets |->
                    IF t = "t1"
                    THEN Ticket("critical", "a1", "in_progress", FALSE, Start, Start,
                                Start + 60, NoTime, flags)
                    ELSE Ticket("high", None, "new", FALSE, Start, Start,
                                NoTime, NoTime, <<"vip", "social_media", "legal">>)]
    /\ \E limit \in TierLimits, teams \in TierTeams :
         agents = [a \in Agents |->
                     CASE a = "a1" -> [Agent(TRUE, 1, 2, teams)
                                         EXCEPT !.empowerment_limit = limit]
                       [] a = "a2" -> Agent(TRUE, 0, 1, <<"T1", "T2">>)
                       [] OTHER    -> Agent(FALSE, 0, 2, <<>>)]
    /\ envelopes = <<>>
    /\ timeline = <<AcceptEntry("t1")>>
    /\ resolutions = <<>>
    /\ calibration = <<>>
    /\ alerts = <<>>
    /\ sent = EmptyBag
    /\ now = Start
    /\ calls = [p \in Procs |-> NoCall]
    /\ last = NoLast

NextTier ==
    \E a \in {"a1", "a2"}, amount \in TierAmounts : CreateResolution("t1", a, amount)

SpecTier == InitTier /\ [][NextTier]_vars

(* The ownership service alone: every agent on both tickets, transfers of t1 *)
NextOwn ==
    \/ \E t \in Tickets, a \in Agents : AcceptTicket(t, a)
    \/ \E a \in Agents, type \in TransferTypes, auth \in Authorizers :
         TransferOwnership("t1", a, type, auth)
    \/ \E t \in Tickets, a \in Agents : ReleaseOwnership(t, a)
    \/ \E t \in Tickets, a \in Agents, s \in SettableStatuses :
         SetTicketStatus(t, a, s)

SpecOwn == Init /\ [][NextOwn]_vars

(* The gates of OwnershipGuard, asked for every agent on a ticket that is    *)
(* accepted and worked with an envelope routed to a2                        *)
GuardActions == {"send customer email", "add note"}

NextGuard ==
    \/ \E a \in {"a1", "a2"} : AcceptTicket("t1", a)
    \/ CreateEnvelope("t1", "a1", None, "a2")
    \/ \E e \in EnvelopeIds : AcceptEnvelope(e, "a2")
    \/ \E a \in Agents, action \in GuardActions : RequireOwner("t1", a, action)
    \/ \E a \in Agents, e \in {0} \cup EnvelopeIds, action \in GuardActions :
         RequireOwnerOrEnvelopeExpert("t1", a, e, action)

SpecGuard == Init /\ [][NextGuard]_vars

(* The timeline of a ticket with envelopes and notes, read by an agent and   *)
(* by the customer, with and without an envelope as context                 *)
ViewerTypes == {"agent", "customer"}

NextView ==
    \/ AcceptTicket("t1", "a1")
    \/ CreateEnvelope("t1", "a1", None, "a2")
    \/ \E e \in EnvelopeIds : AcceptEnvelope(e, "a2")
    \/ \E e \in EnvelopeIds, vis \in Visibilities : AddEnvelopeNote(e, "a2", vis)
    \/ \E viewer_type \in ViewerTypes, e \in {0} \cup EnvelopeIds :
         GetTimeline("t1", "a3", viewer_type, e)
    \/ GetCustomerView("t1")

SpecView == Init /\ [][NextView]_vars

(* The envelope life cycle on an accepted ticket, with every routing *)
NextEnv ==
    \/ AcceptTicket("t1", "a1")
    \/ SetTicketStatus("t1", "a1", "resolved")
    \/ \E by \in Agents, r \in Routings : CreateEnvelope("t1", by, r[1], r[2])
    \/ \E e \in EnvelopeIds, a \in Agents : AcceptEnvelope(e, a)
    \/ \E e \in EnvelopeIds, by \in Agents : CompleteEnvelope(e, by, "summary")

SpecEnv == Init /\ [][NextEnv]_vars

(* Notes on the envelopes of an accepted ticket, in every visibility *)
NextNote ==
    \/ AcceptTicket("t1", "a1")
    \/ CreateEnvelope("t1", "a1", None, "a2")
    \/ \E e \in EnvelopeIds : AcceptEnvelope(e, "a2")
    \/ \E e \in EnvelopeIds, a \in Agents, vis \in Visibilities :
         AddEnvelopeNote(e, a, vis)

SpecNote == Init /\ [][NextNote]_vars

(* accept_ticket calls of several clients, interleaved at their awaits *)
NextAcceptRace ==
    \/ \E p \in Procs, t \in Tickets, a \in Agents : AcceptTicketGetTicket(p, t, a)
    \/ \E p \in Procs : AcceptTicketGetAgent(p)
    \/ \E p \in Procs : AcceptTicketSaveTicket(p)
    \/ \E p \in Procs : AcceptTicketSaveAgent(p)
    \/ \E p \in Procs : AcceptTicketTimeline(p)

SpecAcceptRace == Init /\ [][NextAcceptRace]_vars

(* accept_envelope calls of several clients, interleaved at their awaits,   *)
(* on envelopes the owner of an accepted ticket has created                 *)
NextEnvRace ==
    \/ \E a \in {"a1", "a3"} : AcceptTicket("t1", a)
    \/ \E by \in Agents, r \in Routings : CreateEnvelope("t1", by, r[1], r[2])
    \/ \E p \in Procs, e \in EnvelopeIds, a \in Agents :
         AcceptEnvelopeGetEnvelope(p, e, a)
    \/ \E p \in Procs : AcceptEnvelopeGetAgent(p)
    \/ \E p \in Procs : AcceptEnvelopeSave(p)
    \/ \E p \in Procs : AcceptEnvelopeTimeline(p)

SpecEnvRace == Init /\ [][NextEnvRace]_vars

----------------------------------------------------------------------------
(* create_envelope and complete_envelope split at their awaits *)

\* The frame of an envelope call: the routing or summary it was given and
\* what _update_ticket_envelope_status found when it read the envelopes.
EnvelopeFrame(op, pc, t, by, e, ticket, envelope, team, to, has) ==
    [op |-> op, pc |-> pc, result |-> "none", ticket_id |-> t, agent_id |-> by,
     envelope_id |-> e, ticket |-> ticket, agent |-> None, envelope |-> envelope,
     team_id |-> team, assigned_to |-> to, has |-> has]

\* The create_envelope calls that have not saved their envelope yet
CreatingEnvelope ==
    {p \in Procs : /\ calls[p].op = "create_envelope"
                   /\ calls[p].pc \in {"get_requester", "get_active", "save_envelope"}}

\* Every call in flight can still append its timeline entry, with room for
\* the entries of two envelopes from creation to completion.
RoomForEnvelopeCalls ==
    Len(timeline) + Cardinality({p \in Procs : InFlight(p)}) < MaxTimeline + 2

\* create_envelope up to its first await: ticket_repo.get
CreateEnvelopeGetTicket(p, t, by, team, to) ==
    /\ ~InFlight(p)
    /\ RoomForEnvelopeCalls
    /\ Len(envelopes) + Cardinality(CreatingEnvelope) < MaxEnvelopes
    /\ calls' = [calls EXCEPT ![p] =
                   EnvelopeFrame("create_envelope", "get_requester", t, by, 0,
                                 tickets[t], None, team, to, FALSE)]
    /\ UNCHANGED <<tickets, agents, envelopes, timeline, resolutions, calibration,
                   alerts, sent, now, last>>

\* agent_repo.get(requested_by) and the owner test on the ticket copy
CreateEnvelopeGetRequester(p) ==
    LET f == calls[p]
    IN  /\ f.op = "create_envelope" /\ f.pc = "get_requester"
        /\ calls' = [calls EXCEPT ![p] =
                       [f EXCEPT !.pc = IF f.ticket.owner_id /= f.agent_id
                                        THEN "get_active" ELSE "save_envelope"]]
        /\ UNCHANGED <<tickets, agents, envelopes, timeline, resolutions,
                       calibration, alerts, sent, now, last>>

\* envelope_repo.get_active_for_ticket and the expert test
CreateEnvelopeGetActive(p) ==
    LET f == calls[p]
        expert_ids == {envelopes[e].assigned_to : e \in
                         {x \in GetActiveForTicket(envelopes, f.ticket_id) :
                            envelopes[x].assigned_to /= None}}
    IN  /\ f.op = "create_envelope" /\ f.pc = "get_active"
        /\ IF f.agent_id \notin expert_ids
           THEN /\ calls' = [calls EXCEPT ![p] = Done(f, "NotAuthorizedToEscalate")]
                /\ last' = Outcome("create_envelope", "NotAuthorizedToEscalate",
                                   f.ticket_id, f.agent_id, 0)
           ELSE /\ calls' = [calls EXCEPT ![p] = [f EXCEPT !.pc = "save_envelope"]]
                /\ UNCHANGED last
        /\ UNCHANGED <<tickets, agents, envelopes, timeline, resolutions,
                       calibration, alerts, sent, now>>

\* envelope_repo.save(envelope) and the changes to the ticket copy
CreateEnvelopeSaveEnvelope(p) ==
    LET f == calls[p]
    IN  /\ f.op = "create_envelope" /\ f.pc = "save_envelope"
        /\ envelopes' = Append(envelopes,
                               Envelope(f.ticket_id, f.agent_id, f.assigned_to,
                                        f.team_id))
        /\ calls' = [calls EXCEPT ![p] =
                       [f EXCEPT !.pc = "save_ticket",
                                 !.envelope_id = Len(envelopes) + 1,
                                 !.ticket = EscalatedTicket(f.ticket)]]
        /\ UNCHANGED <<tickets, agents, timeline, resolutions, calibration,
                       alerts, sent, now, last>>

\* ticket_repo.save(ticket)
CreateEnvelopeSaveTicket(p) ==
    LET f == calls[p]
    IN  /\ f.op = "create_envelope" /\ f.pc = "save_ticket"
        /\ tickets' = [tickets EXCEPT ![f.ticket_id] = f.ticket]
        /\ calls' = [calls EXCEPT ![p] = [f EXCEPT !.pc = "timeline"]]
        /\ UNCHANGED <<agents, envelopes, timeline, resolutions, calibration,
                       alerts, sent, now, last>>

\* _get_target_name, timeline_repo.add, the notification and the return
CreateEnvelopeTimeline(p) ==
    LET f == calls[p]
    IN  /\ f.op = "create_envelope" /\ f.pc = "timeline"
        /\ timeline' = Append(timeline,
                              EnvelopeCreatedEntry(f.ticket_id, f.envelope_id,
                                                   f.agent_id))
        /\ calls' = [calls EXCEPT ![p] = Done(f, "ok")]
        /\ last' = Outcome("create_envelope", "ok", f.ticket_id, f.agent_id,
                           f.envelope_id)
        /\ UNCHANGED <<tickets, agents, envelopes, resolutions, calibration,
                       alerts, sent, now>>

\* complete_envelope up to its first await: envelope_repo.get
CompleteEnvelopeGetEnvelope(p, e, by) ==
    /\ ~InFlight(p)
    /\ RoomForEnvelopeCalls
    /\ calls' = [calls EXCEPT ![p] =
                   EnvelopeFrame("complete_envelope", "get_ticket",
                                 envelopes[e].ticket_id, by, e, None, envelopes[e],
                                 None, None, FALSE)]
    /\ UNCHANGED <<tickets, agents, envelopes, timeline, resolutions, calibration,
                   alerts, sent, now, last>>

\* ticket_repo.get, agent_repo.get, the validations on the copies and the
\* changes to the envelope copy
CompleteEnvelopeGetTicket(p) ==
    LET f == calls[p]
        err == CompleteEnvelopeError(f.envelope, f.agent_id)
    IN  /\ f.op = "complete_envelope" /\ f.pc = "get_ticket"
        /\ IF err /= "ok"
           THEN /\ calls' = [calls EXCEPT ![p] = Done(f, err)]
                /\ last' = Outcome("complete_envelope", err, f.ticket_id,
                                   f.agent_id, f.envelope_id)
           ELSE /\ calls' = [calls EXCEPT ![p] =
                               [f EXCEPT !.pc = "save_envelope",
                                         !.ticket = tickets[f.ticket_id],
                                         !.envelope =
                                            CompletedEnvelope(f.envelope, "summary")]]
                /\ UNCHANGED last
        /\ UNCHANGED <<tickets, agents, envelopes, timeline, resolutions,
                       calibration, alerts, sent, now>>

\* envelope_repo.save(envelope)
CompleteEnvelopeSave(p) ==
    LET f == calls[p]
    IN  /\ f.op = "complete_envelope" /\ f.pc = "save_envelope"
        /\ envelopes' = [envelopes EXCEPT ![f.envelope_id] = f.envelope]
        /\ calls' = [calls EXCEPT ![p] = [f EXCEPT !.pc = "timeline"]]
        /\ UNCHANGED <<tickets, agents, timeline, resolutions, calibration,
                       alerts, sent, now, last>>

\* agent_repo.get(envelope.assigned_to) and timeline_repo.add
CompleteEnvelopeTimeline(p) ==
    LET f == calls[p]
    IN  /\ f.op = "complete_envelope" /\ f.pc = "timeline"
        /\ timeline' = Append(timeline,
                              EnvelopeCompletedEntry(f.ticket_id, f.agent_id))
        /\ calls' = [calls EXCEPT ![p] = [f EXCEPT !.pc = "get_envelopes"]]
        /\ UNCHANGED <<tickets, agents, envelopes, resolutions, calibration,
                       alerts, sent, now, last>>

\* _update_ticket_envelope_status up to ticket_repo.get: the envelopes of the
\* ticket as envelope_repo.get_for_ticket returns them
UpdateTicketEnvelopeStatusGetEnvelopes(p) ==
    LET f == calls[p]
        active_envelopes == {e \in GetForTicket(envelopes, f.ticket_id) :
                               envelopes[e].status \in {"pending", "active"}}
    IN  /\ f.op = "complete_envelope" /\ f.pc = "get_envelopes"
        /\ calls' = [calls EXCEPT ![p] =
                       [f EXCEPT !.pc = "update_ticket",
                                 !.has = active_envelopes /= {}]]
        /\ UNCHANGED <<tickets, agents, envelopes, timeline, resolutions,
                       calibration, alerts, sent, now, last>>

\* ... ticket_repo.get and the changes to the copy
UpdateTicketEnvelopeStatusGetTicket(p) ==
    LET f == calls[p]
        ticket == tickets[f.ticket_id]
    IN  /\ f.op = "complete_envelope" /\ f.pc = "update_ticket"
        /\ calls' = [calls EXCEPT ![p] =
                       [f EXCEPT !.pc = "save_ticket",
                                 !.ticket =
                                    [ticket EXCEPT
                                       !.has_active_envelopes = f.has,
                                       !.status =
                                          IF ~f.has /\ ticket.status = "waiting_internal"
                                          THEN "in_progress" ELSE @,
                                       !.updated_at = now]]]
        /\ UNCHANGED <<tickets, agents, envelopes, timeline, resolutions,
                       calibration, alerts, sent, now, last>>

\* ... ticket_repo.save(ticket), the notification and the return
UpdateTicketEnvelopeStatusSave(p) ==
    LET f == calls[p]
    IN  /\ f.op = "complete_envelope" /\ f.pc = "save_ticket"
        /\ tickets' = [tickets EXCEPT ![f.ticket_id] = f.ticket]
        /\ calls' = [calls EXCEPT ![p] = Done(f, "ok")]
        /\ last' = Outcome("complete_envelope", "ok", f.ticket_id, f.agent_id,
                           f.envelope_id)
        /\ UNCHANGED <<agents, envelopes, timeline, resolutions, calibration,
                       alerts, sent, now>>

\* One agent's ticket with envelopes created and completed by calls that
\* overlap: owner and expert escalate to a2, a2 accepts and completes.
NextFlagRace ==
    \/ AcceptTicket("t1", "a1")
    \/ \E e \in EnvelopeIds : AcceptEnvelope(e, "a2")
    \/ \E p \in Procs, by \in {"a1", "a2"} :
         CreateEnvelopeGetTicket(p, "t1", by, None, "a2")
    \/ \E p \in Procs : CreateEnvelopeGetRequester(p)
    \/ \E p \in Procs : CreateEnvelopeGetActive(p)
    \/ \E p \in Procs : CreateEnvelopeSaveEnvelope(p)
    \/ \E p \in Procs : CreateEnvelopeSaveTicket(p)
    \/ \E p \in Procs : CreateEnvelopeTimeline(p)
    \/ \E p \in Procs, e \in EnvelopeIds : CompleteEnvelopeGetEnvelope(p, e, "a2")
    \/ \E p \in Procs : CompleteEnvelopeGetTicket(p)
    \/ \E p \in Procs : CompleteEnvelopeSave(p)
    \/ \E p \in Procs : CompleteEnvelopeTimeline(p)
    \/ \E p \in Procs : UpdateTicketEnvelopeStatusGetEnvelopes(p)
    \/ \E p \in Procs : UpdateTicketEnvelopeStatusGetTicket(p)
    \/ \E p \in Procs : UpdateTicketEnvelopeStatusSave(p)

SpecFlagRace == Init /\ [][NextFlagRace]_vars

(* The alert service, one call at a time, while the clock advances and the  *)
(* critical ticket is accepted                                              *)
NextAlert ==
    \/ \E at \in TimePoints : Tick(at)
    \/ AcceptTicket("t1", "a1")
    \/ CheckTicketAlerts("t1")
    \/ CheckAllOpenTickets
    \/ \E i \in 1..Len(alerts) : AcknowledgeAlert(i, "a2")

SpecAlert == Init /\ [][NextAlert]_vars

(* The scheduler checking a critical ticket on the wall clock, from five     *)
(* minutes after its creation to fifteen hours after it                     *)
ClockTimePoints == {Start + 5, Start + 15, Start + 30, Start + 45, Start + 60,
                    Start + 600, Start + 900}

NextClock ==
    \/ \E at \in ClockTimePoints : Tick(at)
    \/ AcceptTicket("t1", "a1")
    \/ CheckTicketAlertsWallClock("t1")

SpecClock == Init /\ [][NextClock]_vars

(* The alert service on a ticket that nears and passes its due time, is     *)
(* accepted and resolved, and on a ticket without due time                  *)
DueTimePoints == {510, 525, 540, 550}

NextDue ==
    \/ \E at \in DueTimePoints : Tick(at)
    \/ AcceptTicket("t1", "a1")
    \/ SetTicketStatus("t1", "a1", "resolved")
    \/ \E t \in Tickets : CheckTicketAlerts(t)

SpecDue == Init /\ [][NextDue]_vars

(* Alerts of a ticket whose owner is no supervisor (a1), the supervisor of  *)
(* its own team (a2) or in a second team that has a supervisor (a3)         *)
InitNotify ==
    /\ tickets = [t \in Tickets |->
                    Ticket("critical", None, "new", FALSE, Start, Start,
                           Start + 60, NoTime, <<>>)]
    /\ agents = [a \in Agents |->
                   CASE a = "a1" -> Agent(TRUE, 0, 2, <<"T2">>)
                     [] a = "a2" -> Agent(TRUE, 0, 1, <<"T1", "T2">>)
                     [] OTHER    -> Agent(TRUE, 0, 2, <<"T2", "T1">>)]
    /\ envelopes = <<>>
    /\ timeline = <<>>
    /\ resolutions = <<>>
    /\ calibration = <<>>
    /\ alerts = <<>>
    /\ sent = EmptyBag
    /\ now = Start
    /\ calls = [p \in Procs |-> NoCall]
    /\ last = NoLast

NotifyTimePoints == {495, 510, 525}

NextNotify ==
    \/ \E at \in NotifyTimePoints : Tick(at)
    \/ \E a \in Agents : AcceptTicket("t1", a)
    \/ CheckTicketAlerts("t1")

SpecNotify == InitNotify /\ [][NextNotify]_vars

(* check_ticket_alerts calls of several workers, interleaved at their awaits *)
NextAlertRace ==
    \/ \E at \in RaceTimePoints : Tick(at)
    \/ \E p \in Procs : CheckTicketAlertsGetTicket(p, "t1")
    \/ \E p \in Procs : CheckTicketAlertsGetActive(p)
    \/ \E p \in Procs : CheckTicketAlertsTrigger(p)

SpecAlertRace == Init /\ [][NextAlertRace]_vars

(* calculate_score on one ticket, over the inputs of every multiplier *)
ScoreNow == Start + 30 * 24 * 60

Priorities == {"critical", "high", "medium", "low"}
BreachTimes == {NoTime, ScoreNow - 60, ScoreNow + 30, ScoreNow + 60,
                ScoreNow + 2 * 60, ScoreNow + 4 * 60, ScoreNow + 13 * 60,
                ScoreNow + 25 * 60}
ContactTiers == {"standard", "premium", "vip"}
Companies == {<<None, "standard">>, <<"c1", "premium">>, <<"c1", "vip">>}
UpdateTimes == {ScoreNow - 30, ScoreNow - 4 * 24 * 60, ScoreNow - 8 * 24 * 60,
                ScoreNow - 15 * 24 * 60}
CreateTimes == {ScoreNow - 60, ScoreNow - 3 * 60, ScoreNow - 5 * 60,
                ScoreNow - 20 * 24 * 60}
FlagLists == {<<>>, <<"repeat_contact">>, <<"vip", "social_media">>,
              <<"repeat_contact", "legal">>}
ResponseStates == {<<"new", FALSE>>, <<"in_progress", FALSE>>,
                   <<"in_progress", TRUE>>}
\* No envelope, a pending one, an active one
EnvelopeLists == {<<>>, <<Envelope("t1", "a1", "a2", None)>>,
                  <<[Envelope("t1", "a1", "a2", None) EXCEPT !.status = "active"]>>}

InitScore ==
    /\ \E priority \in Priorities, breach \in BreachTimes,
          tier \in ContactTiers, company \in Companies,
          updated \in UpdateTimes, created \in CreateTimes,
          flags \in FlagLists, rs \in ResponseStates, envs \in EnvelopeLists :
         /\ created <= updated
         /\ envelopes = envs
         /\ tickets = [t \in Tickets |->
              IF t = "t1"
              THEN ScoredTicket(priority, rs[1], envs /= <<>>, created, updated,
                                breach, IF rs[2] THEN created + 10 ELSE NoTime,
                                flags, tier, company)
              ELSE ScoredTicket("high", "new", FALSE, Start, Start, NoTime,
                                NoTime, <<>>, "standard", <<None, "standard">>)]
    /\ agents = [a \in Agents |->
                   CASE a = "a1" -> Agent(TRUE, 2, 2, <<"T1">>)
                     [] a = "a2" -> Agent(TRUE, 0, 1, <<"T1", "T2">>)
                     [] OTHER    -> Agent(FALSE, 0, 2, <<>>)]
    /\ timeline = <<>>
    /\ resolutions = <<>>
    /\ calibration = <<>>
    /\ alerts = <<>>
    /\ sent = EmptyBag
    /\ now = ScoreNow
    /\ calls = [p \in Procs |-> NoCall]
    /\ last = NoLast

NextScore == CalculateScore("t1")

SpecScore == InitScore /\ [][NextScore]_vars

(* get_work_queue over two tickets of every status and several scores *)
(* calculate_score on a ticket whose envelopes are created, accepted and  *)
(* completed                                                              *)
InitEsc ==
    /\ tickets = [t \in Tickets |->
                    ScoredTicket("high", "in_progress", FALSE, Start, Start, NoTime,
                                 NoTime, <<>>, "standard", <<None, "standard">>)]
    /\ agents = [a \in Agents |->
                   CASE a = "a1" -> Agent(TRUE, 2, 2, <<"T1">>)
                     [] a = "a2" -> Agent(TRUE, 0, 1, <<"T1", "T2">>)
                     [] OTHER    -> Agent(FALSE, 0, 2, <<>>)]
    /\ envelopes = <<>>
    /\ timeline = <<>>
    /\ resolutions = <<>>
    /\ calibration = <<>>
    /\ alerts = <<>>
    /\ sent = EmptyBag
    /\ now = Start
    /\ calls = [p \in Procs |-> NoCall]
    /\ last = NoLast

NextEsc ==
    \/ \E r \in {<<"T1", None>>, <<None, "a2">>} :
         CreateEnvelope("t1", "a1", r[1], r[2])
    \/ \E e \in EnvelopeIds : AcceptEnvelope(e, "a2")
    \/ \E e \in EnvelopeIds, by \in {"a1", "a2"} : CompleteEnvelope(e, by, "summary")
    \/ CalculateScore("t1")

SpecEsc == InitEsc /\ [][NextEsc]_vars

QueueStatuses == {"new", "in_progress", "waiting_customer", "waiting_internal",
                  "resolved", "closed"}
QueuePriorities == {"critical", "high", "low"}
QueueBreachTimes == {NoTime, ScoreNow + 2 * 60}
QueueOwners == {"a1", "a2"}
QueueLimits == {1, 50}

QueueTicket(priority, status, breach, owner) ==
    [ScoredTicket(priority, status, FALSE, ScoreNow - 60, ScoreNow - 30, breach,
                  ScoreNow - 50, <<>>, "standard", <<None, "standard">>)
       EXCEPT !.owner_id = owner]

InitQueue ==
    /\ tickets \in [Tickets -> {QueueTicket(p, st, b, o) :
                                  p \in QueuePriorities, st \in QueueStatuses,
                                  b \in QueueBreachTimes, o \in QueueOwners}]
    /\ agents = [a \in Agents |->
                   CASE a = "a1" -> Agent(TRUE, 2, 2, <<"T1">>)
                     [] a = "a2" -> Agent(TRUE, 2, 2, <<"T1", "T2">>)
                     [] OTHER    -> Agent(FALSE, 0, 2, <<>>)]
    /\ envelopes = <<>>
    /\ timeline = <<>>
    /\ resolutions = <<>>
    /\ calibration = <<>>
    /\ alerts = <<>>
    /\ sent = EmptyBag
    /\ now = ScoreNow
    /\ calls = [p \in Procs |-> NoCall]
    /\ last = NoLast

NextQueue == \E limit \in QueueLimits : GetWorkQueue("a1", limit)

SpecQueue == InitQueue /\ [][NextQueue]_vars

----------------------------------------------------------------------------
(* Properties *)

RECURSIVE SumTickets(_, _)
SumTickets(ag, S) ==
    IF S = {} THEN 0
    ELSE LET a == CHOOSE x \in S : TRUE
         IN  ag[a].current_tickets + SumTickets(ag, S \ {a})

IsPrefix(s, t) == Len(s) <= Len(t) /\ SubSeq(t, 1, Len(s)) = s

AppendsOne(old, new) == Len(new) = Len(old) + 1 /\ IsPrefix(old, new)

\* C1: once a ticket has an owner, a step changes its owner_id only if it is
\* a transfer_ownership call with transfer_type termination or extended_leave;
\* accept_ticket, release_ownership, the envelope handlers and the resolution
\* handlers leave it as it is.
C1_OwnerChangesOnlyByTransfer ==
    [][\A t \in Tickets :
         (tickets[t].owner_id /= None /\ tickets'[t].owner_id /= tickets[t].owner_id)
         => \E new \in Agents, type \in {"termination", "extended_leave"},
               auth \in Authorizers :
              /\ TransferOwnership(t, new, type, auth)
              /\ last'.result = "ok"]_vars

\* An owned ticket after an envelope was completed on it and a resolution
\* was filed and decided: every kind of handler has run on it.
C1_Witness ==
    /\ tickets["t1"].owner_id /= None
    /\ \E e \in 1..Len(envelopes) : envelopes[e].status = "completed"
    /\ Len(resolutions) > 0
    /\ last.op \in {"approve_resolution", "reject_resolution", "release_ownership"}

\* C7 as stated, without an order among the three conditions: accept_ticket
\* fails with AlreadyOwned whenever the ticket has an owner, with
\* AgentInactive whenever the agent is not active, with AgentAtCapacity
\* whenever current_tickets >= max_tickets, and succeeds only when none holds.
C7_AcceptTicketErrorsUnordered ==
    [][\A t \in Tickets, a \in Agents :
         (last'.op = "accept_ticket" /\ AcceptTicket(t, a)) =>
           /\ tickets[t].owner_id /= None => last'.result = "AlreadyOwned"
           /\ ~agents[a].is_active => last'.result = "AgentInactive"
           /\ agents[a].current_tickets >= agents[a].max_tickets
                => last'.result = "AgentAtCapacity"
           /\ last'.result = "ok"
                => /\ tickets[t].owner_id = None
                   /\ agents[a].is_active
                   /\ agents[a].current_tickets < agents[a].max_tickets]_vars

\* C7: accept_ticket(ticket, agent) fails with AlreadyOwned when the ticket
\* has an owner, otherwise with AgentInactive when the agent is not active,
\* otherwise with AgentAtCapacity when current_tickets >= max_tickets, and
\* it succeeds exactly when none of the three conditions holds.
C7_AcceptTicketErrors ==
    [][\A t \in Tickets, a \in Agents :
         (last'.op = "accept_ticket" /\ AcceptTicket(t, a)) =>
           LET owned == tickets[t].owner_id /= None
               inactive == ~agents[a].is_active
               full == agents[a].current_tickets >= agents[a].max_tickets
           IN  /\ last'.op = "accept_ticket"
               /\ owned => last'.result = "AlreadyOwned"
               /\ (~owned /\ inactive) => last'.result = "AgentInactive"
               /\ (~owned /\ ~inactive /\ full) => last'.result = "AgentAtCapacity"
               /\ (last'.result = "ok") <=> (~owned /\ ~inactive /\ ~full)
               /\ last'.result \in {"ok", "AlreadyOwned", "AgentInactive",
                                    "AgentAtCapacity"}]_vars

\* An active agent holding as many tickets as it may was refused another.
C7_Witness ==
    /\ last.op = "accept_ticket"
    /\ last.result = "AgentAtCapacity"
    /\ agents["a2"].current_tickets = agents["a2"].max_tickets
    /\ \E t \in Tickets : tickets[t].owner_id = None

\* C8: a successful accept_ticket(ticket, agent) sets owner_id to the agent,
\* takes the status from new to in_progress, adds exactly 1 to that agent's
\* current_tickets, appends exactly one timeline entry, and changes no other
\* ticket and no other agent.
C8_AcceptTicketEffect ==
    [][(last'.op = "accept_ticket" /\ last'.result = "ok") =>
         LET t == last'.ticket
             a == last'.agent
         IN  /\ tickets[t].owner_id = None
             /\ tickets'[t].owner_id = a
             /\ tickets[t].status = "new"
             /\ tickets'[t].status = "in_progress"
             /\ agents'[a].current_tickets = agents[a].current_tickets + 1
             /\ AppendsOne(timeline, timeline')
             /\ timeline'[Len(timeline')].ticket_id = t
             /\ \A u \in Tickets \ {t} : tickets'[u] = tickets[u]
             /\ \A b \in Agents \ {a} : agents'[b] = agents[b]]_vars

\* The second ticket was accepted while the first one had its owner.
C8_Witness ==
    /\ last.op = "accept_ticket"
    /\ last.result = "ok"
    /\ \A t \in Tickets : tickets[t].owner_id /= None
    /\ tickets[last.ticket].owner_id = last.agent

\* C9: transfer_ownership with a transfer_type other than termination or
\* extended_leave fails with InvalidTransferReason and changes no ticket, no
\* agent and no timeline entry.
C9_InvalidTransferRejected ==
    [][\A t \in Tickets, new \in Agents, auth \in Authorizers,
          type \in TransferTypes \ {"termination", "extended_leave"} :
         (last'.op = "transfer_ownership" /\ TransferOwnership(t, new, type, auth)) =>
           /\ last'.op = "transfer_ownership"
           /\ last'.result = "InvalidTransferReason"
           /\ tickets' = tickets
           /\ agents' = agents
           /\ timeline' = timeline]_vars

\* A transfer with an invalid type was refused on an owned ticket.
C9_Witness ==
    /\ last.op = "transfer_ownership"
    /\ last.result = "InvalidTransferReason"
    /\ \E t \in Tickets : tickets[t].owner_id /= None

\* C10: a successful transfer_ownership(ticket, newOwner) sets owner_id to
\* newOwner, takes 1 from the previous owner's current_tickets and adds 1 to
\* newOwner's, so that whoever newOwner is the sum of current_tickets over
\* all agents stays the same, and appends exactly one timeline entry.
C10_TransferEffect ==
    [][(last'.op = "transfer_ownership" /\ last'.result = "ok") =>
         LET t == last'.ticket
             new == last'.agent
             old == tickets[t].owner_id
         IN  /\ tickets'[t].owner_id = new
             /\ old /= new =>
                  /\ agents'[old].current_tickets = agents[old].current_tickets - 1
                  /\ agents'[new].current_tickets = agents[new].current_tickets + 1
             /\ SumTickets(agents', Agents) = SumTickets(agents, Agents)
             /\ AppendsOne(timeline, timeline')]_vars

\* C4: an envelope's status steps only pending -> active, by a successful
\* accept_envelope, and active -> completed, by a successful
\* complete_envelope; accept_envelope fails on an envelope that is not
\* pending, complete_envelope fails on one that is not active, and a
\* completed envelope keeps its status.
C4_EnvelopeStatusMonotonic ==
    [][/\ IsPrefix([i \in 1..Len(envelopes) |-> envelopes[i].ticket_id],
                   [i \in 1..Len(envelopes') |-> envelopes'[i].ticket_id])
       /\ \A e \in 1..Len(envelopes) :
            envelopes'[e].status /= envelopes[e].status =>
              \/ /\ envelopes[e].status = "pending"
                 /\ envelopes'[e].status = "active"
                 /\ last' = Outcome("accept_envelope", "ok", envelopes[e].ticket_id,
                                    last'.agent, e)
              \/ /\ envelopes[e].status = "active"
                 /\ envelopes'[e].status = "completed"
                 /\ last' = Outcome("complete_envelope", "ok", envelopes[e].ticket_id,
                                    last'.agent, e)
       /\ \A e \in 1..Len(envelopes), a \in Agents :
            /\ (/\ last'.op = "accept_envelope"
                /\ envelopes[e].status /= "pending"
                /\ AcceptEnvelope(e, a))
                 => last'.result = "AlreadyAccepted" /\ envelopes' = envelopes
            /\ (/\ last'.op = "complete_envelope"
                /\ envelopes[e].status /= "active"
                /\ CompleteEnvelope(e, a, "summary"))
                 => last'.result = "InvalidEnvelopeState" /\ envelopes' = envelopes
       /\ \A e \in 1..Len(envelopes) :
            Len(envelopes') >= e /\ envelopes[e].status = "completed"
              => envelopes'[e].status = "completed"]_vars

\* A completed envelope on which a further accept or complete was refused.
C4_Witness ==
    /\ \E e \in 1..Len(envelopes) : envelopes[e].status = "completed"
    /\ last.op \in {"accept_envelope", "complete_envelope"}
    /\ last.result \in {"AlreadyAccepted", "InvalidEnvelopeState"}
\* C2: when the accept_ticket calls of two different agents on the same
\* unowned ticket interleave, exactly one succeeds: the two finished calls
\* never both succeed, the other one has failed, the stored owner_id is the
\* winner's, and the loser's current_tickets was not raised.
C2_OneAcceptWins ==
    \A p, q \in Procs :
      (/\ p /= q
       /\ calls[p].op = "accept_ticket" /\ calls[p].pc = "done"
       /\ calls[q].op = "accept_ticket" /\ calls[q].pc = "done"
       /\ calls[p].ticket_id = calls[q].ticket_id
       /\ calls[p].agent_id /= calls[q].agent_id
       /\ calls[p].result = "ok")
      => /\ calls[q].result \in {"AlreadyOwned", "AgentInactive", "AgentAtCapacity"}
         /\ tickets[calls[p].ticket_id].owner_id = calls[p].agent_id
         /\ agents[calls[q].agent_id].current_tickets
              <= Cardinality({t \in Tickets :
                                tickets[t].owner_id = calls[q].agent_id})

\* C3: when the accept_envelope calls of two different members of the team
\* on the same pending team-routed envelope interleave, exactly one succeeds:
\* the two finished calls never both succeed, the loser gets AlreadyAccepted,
\* and assigned_to stays the winner.
C3_OneEnvelopeAcceptWins ==
    \A p, q \in Procs :
      (/\ p /= q
       /\ calls[p].op = "accept_envelope" /\ calls[p].pc = "done"
       /\ calls[q].op = "accept_envelope" /\ calls[q].pc = "done"
       /\ calls[p].envelope_id = calls[q].envelope_id
       /\ calls[p].agent_id /= calls[q].agent_id
       /\ envelopes[calls[p].envelope_id].team_id /= None
       /\ SeqMember(envelopes[calls[p].envelope_id].team_id,
                    agents[calls[q].agent_id].team_ids)
       /\ calls[p].result = "ok")
      => /\ calls[q].result = "AlreadyAccepted"
         /\ envelopes[calls[p].envelope_id].assigned_to = calls[p].agent_id

AlertConditions == {"not_assigned", "not_updated", "not_completed"}
AlertLevels == {1, 2, 3}

\* The alerts ever created, and the notifications ever sent, for a tuple
AlertsOf(al, t, condition, level) ==
    {i \in 1..Len(al) : /\ al[i].ticket_id = t
                        /\ al[i].condition = condition
                        /\ al[i].level = level}

NotificationsOf(s, t, condition, level) ==
    [n \in {x \in DOMAIN s : /\ x.ticket_id = t
                             /\ x.condition = condition
                             /\ x.level = level} |-> s[n]]

\* C5: while an unacknowledged alert of (ticket, condition, level) exists, a
\* check_ticket_alerts or check_all_open_tickets call creates no alert and
\* sends no notification for that tuple, so that at most one unacknowledged
\* alert of a tuple exists when the calls run one after the other.
C5_NoRefireWhileActive ==
    [][\A t \in Tickets, condition \in AlertConditions, level \in AlertLevels :
         /\ GetActive(alerts, t, condition, level) /= {}
            => /\ AlertsOf(alerts', t, condition, level)
                    = AlertsOf(alerts, t, condition, level)
               /\ NotificationsOf(sent', t, condition, level)
                    = NotificationsOf(sent, t, condition, level)
         /\ Cardinality(GetActive(alerts', t, condition, level)) <= 1]_vars

\* A check has just run at a later moment than the one at which an alert,
\* still unacknowledged, was raised for a rule whose predicate still holds
\* and which notified somebody.
C5_Witness ==
    /\ last.op \in {"check_ticket_alerts", "check_all_open_tickets"}
    /\ \E i \in 1..Len(alerts) :
         LET config == GetForPriority(tickets[alerts[i].ticket_id].priority)
             rules == FlatRules(config.alert_levels)
         IN  /\ alerts[i].acknowledged_at = NoTime
             /\ alerts[i].triggered_at < now
             /\ alerts[i].recipients_notified /= EmptyBag
             /\ last.ticket \in {alerts[i].ticket_id, None}
             /\ \E k \in 1..Len(rules) :
                  /\ rules[k].level = alerts[i].level
                  /\ rules[k].rule.condition = alerts[i].condition
                  /\ ShouldTrigger(tickets[alerts[i].ticket_id], rules[k].rule,
                                   config, now)

\* C6: when check_ticket_alerts calls of several workers interleave, at most
\* one unacknowledged alert of a (ticket, condition, level) exists.
C6_OneActiveAlertPerTuple ==
    \A t \in Tickets, condition \in AlertConditions, level \in AlertLevels :
      Cardinality(GetActive(alerts, t, condition, level)) <= 1

ActiveStatuses == {"new", "in_progress", "waiting_customer", "waiting_internal"}

\* C11 as stated, without an order between the two conditions:
\* release_ownership fails with NotOwner whenever the agent is not the owner
\* and with TicketStillActive whenever the status is new, in_progress,
\* waiting_customer or waiting_internal, the agent's current_tickets being
\* unchanged.
C11_ReleaseErrorsUnordered ==
    [][\A t \in Tickets, a \in Agents :
         (last'.op = "release_ownership" /\ ReleaseOwnership(t, a)) =>
           /\ tickets[t].owner_id /= a => last'.result = "NotOwner"
           /\ tickets[t].status \in ActiveStatuses
                => last'.result = "TicketStillActive"
           /\ last'.result /= "ok" => agents' = agents]_vars

\* C11: release_ownership(ticket, agent) fails with NotOwner when the agent
\* is not the ticket's owner, otherwise with TicketStillActive when the
\* status is new, in_progress, waiting_customer or waiting_internal; a failed
\* call changes no agent's current_tickets and no ticket.
C11_ReleaseErrors ==
    [][\A t \in Tickets, a \in Agents :
         (last'.op = "release_ownership" /\ ReleaseOwnership(t, a)) =>
           LET owner == tickets[t].owner_id = a
               active == tickets[t].status \in ActiveStatuses
           IN  /\ last'.op = "release_ownership"
               /\ ~owner => last'.result = "NotOwner"
               /\ (owner /\ active) => last'.result = "TicketStillActive"
               /\ (~owner \/ active) => /\ agents' = agents
                                        /\ tickets' = tickets]_vars

\* The owner of a ticket that is still active was refused its release.
C11_Witness ==
    /\ last.op = "release_ownership"
    /\ last.result = "TicketStillActive"
    /\ \E t \in Tickets : /\ tickets[t].owner_id /= None
                          /\ tickets[t].status \in ActiveStatuses
                          /\ agents[tickets[t].owner_id].current_tickets > 0

\* C12: release_ownership by the owner of a resolved or closed ticket
\* succeeds and sets the agent's current_tickets to max(0, current_tickets - 1),
\* changing no ticket (neither owner_id nor status) and no other agent.
C12_ReleaseEffect ==
    [][\A t \in Tickets, a \in Agents :
         (/\ last'.op = "release_ownership"
          /\ tickets[t].owner_id = a
          /\ tickets[t].status \in {"resolved", "closed"}
          /\ ReleaseOwnership(t, a))
         => /\ last'.result = "ok"
            /\ agents'[a].current_tickets
                 = IF agents[a].current_tickets - 1 > 0
                   THEN agents[a].current_tickets - 1 ELSE 0
            /\ \A b \in Agents \ {a} : agents'[b] = agents[b]
            /\ tickets' = tickets]_vars

\* A released ticket is still resolved or closed and still names the agent
\* as its owner, and the agent's counter stands at 0.
C12_Witness ==
    /\ last.op = "release_ownership"
    /\ last.result = "ok"
    /\ tickets[last.ticket].owner_id = last.agent
    /\ tickets[last.ticket].status \in {"resolved", "closed"}
    /\ agents[last.agent].current_tickets = 0

\* The agents working in an active envelope of a ticket
ActiveExperts(t) ==
    {envelopes[e].assigned_to :
       e \in {x \in 1..Len(envelopes) : /\ envelopes[x].ticket_id = t
                                        /\ envelopes[x].status = "active"}}

\* C13: create_envelope(ticket, requestedBy, ...) succeeds only if requestedBy
\* is the ticket's owner or the assigned_to of an active envelope of the
\* ticket; every other caller, one named on a pending envelope or the expert
\* of a completed one included, fails with NotAuthorizedToEscalate and no
\* envelope is created.
C13_CreateEnvelopeAuthorization ==
    [][last'.op = "create_envelope" =>
         /\ last'.result = "ok" =>
              \/ tickets[last'.ticket].owner_id = last'.agent
              \/ last'.agent \in ActiveExperts(last'.ticket)
         /\ last'.result /= "ok" =>
              /\ last'.result = "NotAuthorizedToEscalate"
              /\ envelopes' = envelopes
              /\ tickets' = tickets
              /\ timeline' = timeline
         /\ \A by \in Agents \ ({tickets["t1"].owner_id} \cup ActiveExperts("t1")) :
              CreateEnvelope("t1", by, "T1", None) => last'.result /= "ok"]_vars

\* A create_envelope call was refused on a ticket of a1 on which a2 is named
\* on a pending envelope and nobody works in an active one.
C13_Witness ==
    /\ last.op = "create_envelope"
    /\ last.result = "NotAuthorizedToEscalate"
    /\ tickets["t1"].owner_id = "a1"
    /\ ActiveExperts("t1") = {}
    /\ \E e \in 1..Len(envelopes) : /\ envelopes[e].status = "pending"
                                    /\ envelopes[e].assigned_to = "a2"

\* C14: a successful create_envelope stores one new pending envelope of the
\* ticket, sets the ticket's status to waiting_internal and
\* has_active_envelopes to true, and leaves the ticket's owner_id and every
\* existing envelope as they were.
C14_CreateEnvelopeEffect ==
    [][(last'.op = "create_envelope" /\ last'.result = "ok") =>
         LET t == last'.ticket
         IN  /\ AppendsOne(envelopes, envelopes')
             /\ envelopes'[Len(envelopes')].status = "pending"
             /\ envelopes'[Len(envelopes')].ticket_id = t
             /\ envelopes'[Len(envelopes')].requested_by = last'.agent
             /\ tickets'[t].status = "waiting_internal"
             /\ tickets'[t].has_active_envelopes
             /\ tickets'[t].owner_id = tickets[t].owner_id
             /\ \A u \in Tickets \ {t} : tickets'[u] = tickets[u]]_vars

\* A second envelope was created, by the expert of the first, on a ticket
\* that had been resolved.
C14_Witness ==
    /\ last.op = "create_envelope"
    /\ last.result = "ok"
    /\ Len(envelopes) = 2
    /\ last.agent /= tickets[last.ticket].owner_id
    /\ tickets[last.ticket].resolved_at /= NoTime
    /\ tickets[last.ticket].status = "waiting_internal"

\* C15: every pending envelope has assigned_to null, whatever routing
\* create_envelope was given.
C15_PendingUnassigned ==
    \A e \in 1..Len(envelopes) :
      envelopes[e].status = "pending" => envelopes[e].assigned_to = None

\* C16: accept_envelope(envelope, agent) on a pending envelope succeeds only
\* for an eligible agent: of an envelope routed to a team only a member of the
\* team, of an envelope routed to a named agent only that agent, any other
\* agent failing (with NotAssignedAgent when no team is named); a failed
\* acceptance leaves the envelope's status and assigned_to as they were.
C16_AcceptEnvelopeEligibility ==
    [][\A e \in EnvelopeIds, a \in Agents :
         (AcceptEnvelope(e, a) /\ envelopes[e].status = "pending") =>
           LET envelope == envelopes[e]
               member == SeqMember(envelope.team_id, agents[a].team_ids)
               other == envelope.assigned_to /= None /\ envelope.assigned_to /= a
           IN  /\ (envelope.team_id /= None /\ ~member) => last'.result /= "ok"
               /\ other => last'.result /= "ok"
               /\ (other /\ envelope.team_id = None)
                    => last'.result = "NotAssignedAgent"
               /\ last'.result /= "ok" => envelopes' = envelopes]_vars

\* C17 as stated, without an order between the two conditions:
\* complete_envelope fails with InvalidEnvelopeState whenever the envelope is
\* not active and with NotAuthorized whenever the caller is neither the
\* ticket's owner nor the envelope's assigned_to, a failed call changing
\* nothing.
C17_CompleteEnvelopeErrorsUnordered ==
    [][\A e \in EnvelopeIds, by \in Agents :
         (last'.op = "complete_envelope" /\ CompleteEnvelope(e, by, "summary")) =>
           /\ envelopes[e].status /= "active"
                => last'.result = "InvalidEnvelopeState"
           /\ ~OwnerOrExpert(envelopes[e], by) => last'.result = "NotAuthorized"
           /\ last'.result /= "ok" => /\ envelopes' = envelopes
                                      /\ tickets' = tickets
                                      /\ timeline' = timeline]_vars

\* C17: complete_envelope(envelope, completed_by, summary) fails with
\* InvalidEnvelopeState when the envelope is not active, otherwise with
\* NotAuthorized when completed_by is neither the ticket's owner nor the
\* envelope's assigned_to; a failed call leaves every envelope (status and
\* summary), every ticket (status and has_active_envelopes) and the timeline
\* unchanged.
C17_CompleteEnvelopeErrors ==
    [][\A e \in EnvelopeIds, by \in Agents :
         (last'.op = "complete_envelope" /\ CompleteEnvelope(e, by, "summary")) =>
           LET active == envelopes[e].status = "active"
               allowed == OwnerOrExpert(envelopes[e], by)
           IN  /\ last'.op = "complete_envelope"
               /\ ~active => last'.result = "InvalidEnvelopeState"
               /\ (active /\ ~allowed) => last'.result = "NotAuthorized"
               /\ (active /\ allowed) => last'.result = "ok"
               /\ (~active \/ ~allowed) => /\ envelopes' = envelopes
                                           /\ tickets' = tickets
                                           /\ timeline' = timeline]_vars

\* An agent that is neither the owner nor the expert was refused the
\* completion of an active envelope, which is still active.
C17_Witness ==
    /\ last.op = "complete_envelope"
    /\ last.result = "NotAuthorized"
    /\ \E e \in 1..Len(envelopes) :
          /\ envelopes[e].status = "active"
          /\ envelopes[e].assigned_to /= None
          /\ envelopes[e].summary = None
          /\ tickets[envelopes[e].ticket_id].has_active_envelopes

\* The ticket still has a pending or active envelope in envs
Remaining(envs, t) ==
    \E e \in 1..Len(envs) : /\ envs[e].ticket_id = t
                             /\ envs[e].status \in {"pending", "active"}

\* C18: after a successful complete_envelope the ticket's
\* has_active_envelopes is true exactly when some envelope of the ticket is
\* still pending or active; when none remains and the status was
\* waiting_internal it becomes in_progress, and when one remains the status
\* is left as it was (waiting_internal stays waiting_internal).
C18_CompleteEnvelopeTicketStatus ==
    [][(last'.op = "complete_envelope" /\ last'.result = "ok") =>
         LET t == last'.ticket
             remains == Remaining(envelopes', t)
         IN  /\ envelopes'[last'.envelope].status = "completed"
             /\ tickets'[t].has_active_envelopes <=> remains
             /\ (~remains /\ tickets[t].status = "waiting_internal")
                  => tickets'[t].status = "in_progress"
             /\ remains => tickets'[t].status = tickets[t].status]_vars

\* An envelope was completed while another envelope of the ticket is still
\* pending: the ticket is waiting_internal with has_active_envelopes set.
C18_Witness ==
    /\ last.op = "complete_envelope"
    /\ last.result = "ok"
    /\ envelopes[last.envelope].status = "completed"
    /\ \E e \in 1..Len(envelopes) : /\ envelopes[e].ticket_id = last.ticket
                                    /\ envelopes[e].status = "pending"
    /\ tickets[last.ticket].status = "waiting_internal"
    /\ tickets[last.ticket].has_active_envelopes

\* C19: add_envelope_note(envelope, agent, ...) by the ticket's owner or the
\* envelope's assigned_to appends exactly one timeline entry, a note of that
\* agent carrying the envelope's id; by any other agent it fails with
\* NotAuthorized and appends nothing; in both cases no envelope (status,
\* assigned_to) and no ticket (status) changes.
C19_AddEnvelopeNote ==
    [][\A e \in EnvelopeIds, a \in Agents, vis \in Visibilities :
         (last'.op = "add_envelope_note" /\ AddEnvelopeNote(e, a, vis)) =>
           LET t == envelopes[e].ticket_id
               allowed == a = tickets[t].owner_id \/ a = envelopes[e].assigned_to
               entry == timeline'[Len(timeline')]
           IN  /\ last'.op = "add_envelope_note"
               /\ allowed => /\ last'.result = "ok"
                             /\ AppendsOne(timeline, timeline')
                             /\ entry.envelope_id = e
                             /\ entry.ticket_id = t
                             /\ entry.author_id = a
                             /\ entry.type = "note"
               /\ ~allowed => /\ last'.result = "NotAuthorized"
                              /\ timeline' = timeline
               /\ envelopes' = envelopes
               /\ tickets' = tickets]_vars

\* The assigned expert, who is not the owner, added a note to the envelope
\* it had accepted.
C19_Witness ==
    /\ last.op = "add_envelope_note"
    /\ last.result = "ok"
    /\ last.agent = envelopes[last.envelope].assigned_to
    /\ last.agent /= tickets[last.ticket].owner_id
    /\ envelopes[last.envelope].status = "active"
    /\ timeline[Len(timeline)].type = "note"
    /\ timeline[Len(timeline)].envelope_id = last.envelope

\* The exact product behind a returned score, in millionths
ExactScore(score) ==
    score.base_priority * ProductOf(score.multipliers, DOMAIN score.multipliers)
      * ProductOf([k \in MultiplierNames \ DOMAIN score.multipliers |-> 10],
                  MultiplierNames \ DOMAIN score.multipliers)

\* What C20 says of every returned score but the value of calculated_score
ScoreBreakdown(score, ticket, factors) ==
    /\ score.base_priority =
         CASE ticket.priority = "critical" -> 100
           [] ticket.priority = "high"     -> 70
           [] ticket.priority = "medium"   -> 40
           [] OTHER                        -> 10
    /\ DOMAIN score.multipliers = {k \in MultiplierNames : factors[k] > 10}
    /\ \A k \in DOMAIN score.multipliers : score.multipliers[k] = factors[k]
    /\ (ticket.priority = "critical" /\ DOMAIN score.multipliers = {})
         => score.calculated_score = 100 * 100
    /\ (/\ ticket.priority = "medium"
        /\ DOMAIN score.multipliers = {"sla_proximity", "vip_customer"}
        /\ score.multipliers["sla_proximity"] = 20
        /\ score.multipliers["vip_customer"] = 15)
         => /\ score.calculated_score = 120 * 100
            /\ score.calculated_score > 70 * 100

\* C20 as stated: the score calculate_score returns is BASE[priority] times
\* the product of the multipliers above 1.0, exactly, and the breakdown lists
\* exactly those multipliers.
C20_ScoreIsExactProduct ==
    [][last'.op = "calculate_score" =>
         LET score == last'.score
             ticket == tickets[last'.ticket]
         IN  /\ ScoreBreakdown(score, ticket,
                               Factors(ticket, envelopes, last'.ticket, now))
             /\ score.calculated_score * 10000 = ExactScore(score)]_vars

\* C20: calculate_score returns BASE[priority] (critical 100, high 70,
\* medium 40, low 10) times the product of exactly the multipliers above 1.0,
\* rounded to two decimals, and its breakdown lists exactly those
\* multipliers; a critical ticket without multipliers scores 100 and a medium
\* ticket with the SLA factor 2.0 and the VIP factor 1.5 scores 120, above
\* the 70 of a high ticket without multipliers.
C20_ScoreIsRoundedProduct ==
    [][last'.op = "calculate_score" =>
         LET score == last'.score
             ticket == tickets[last'.ticket]
             exact == ExactScore(score)
         IN  /\ ScoreBreakdown(score, ticket,
                               Factors(ticket, envelopes, last'.ticket, now))
             /\ score.calculated_score * 10000 - exact <= 5000
             /\ exact - score.calculated_score * 10000 <= 5000]_vars

\* A medium ticket that breaches its SLA in two hours, of a VIP requester,
\* was scored 120 with these two multipliers in the breakdown.
C20_Witness ==
    /\ last.op = "calculate_score"
    /\ tickets[last.ticket].priority = "medium"
    /\ tickets[last.ticket].sla_breach_at = now + 2 * 60
    /\ tickets[last.ticket].requester_tier = "vip"
    /\ DOMAIN last.score.multipliers = {"sla_proximity", "vip_customer"}
    /\ last.score.calculated_score = 120 * 100

\* The multiplier of a customer tier, in tenths
TierMultiplier(tier) ==
    IF tier = "vip" THEN 15 ELSE IF tier = "premium" THEN 12 ELSE 10

\* C21: the customer-tier multiplier a score was computed with is the larger
\* of the requester's and the company's multiplier (vip 1.5, premium 1.2,
\* otherwise 1.0), a premium requester of a vip company getting 1.5.
C21_CustomerTierIsLarger ==
    last.op = "calculate_score" =>
      LET ticket == tickets[last.ticket]
          used == IF "vip_customer" \in DOMAIN last.score.multipliers
                  THEN last.score.multipliers["vip_customer"] ELSE 10
          company == IF ticket.company_id = None THEN 10
                     ELSE TierMultiplier(ticket.company_tier)
      IN  used = Max(TierMultiplier(ticket.requester_tier), company)

BucketNames == {"needs_attention", "waiting_on_others", "on_track"}

\* The places of a returned work queue: bucket and index
Places(queue) ==
    {<<b, i>> : b \in BucketNames, i \in 1..Max(Len(queue.needs_attention),
                                              Max(Len(queue.waiting_on_others),
                                                  Len(queue.on_track)))}
      \cap UNION {{<<b, i>> : i \in 1..Len(queue[b])} : b \in BucketNames}

\* The tickets of the agent that are neither resolved nor closed
OpenOf(a) ==
    {t \in Tickets : /\ tickets[t].owner_id = a
                     /\ tickets[t].status \notin {"resolved", "closed"}}

\* Every item is in the bucket the rule gives it, and every bucket is in
\* descending score order
BucketsByRule(queue) ==
    /\ \A pl \in Places(queue) :
         LET item == queue[pl[1]][pl[2]]
             status == tickets[item.ticket].status
             attention == \/ item.score.calculated_score >= 80 * 100
                          \/ "sla_proximity" \in DOMAIN item.score.multipliers
                          \/ status = "waiting_customer"
         IN  /\ item.score \in ScoresOf(item.ticket)
             /\ pl[1] = "needs_attention" <=> attention
             /\ pl[1] = "waiting_on_others"
                  <=> (~attention /\ status = "waiting_internal")
    /\ \A b \in BucketNames : \A i, j \in 1..Len(queue[b]) :
         i < j => queue[b][i].score.calculated_score
                    >= queue[b][j].score.calculated_score

\* C22 as stated: the work queue holds every open ticket of the agent in
\* exactly one bucket and no other ticket, each in the bucket of the rule, the
\* buckets in descending score order, and the bucket sizes add up to total.
C22_WorkQueueHoldsEveryTicket ==
    last.op = "get_work_queue" =>
      LET queue == last.queue
      IN  /\ \A t \in OpenOf(last.agent) :
               Cardinality({pl \in Places(queue) :
                              queue[pl[1]][pl[2]].ticket = t}) = 1
          /\ \A pl \in Places(queue) :
               queue[pl[1]][pl[2]].ticket \in OpenOf(last.agent)
          /\ BucketsByRule(queue)
          /\ Cardinality(Places(queue)) = queue.total

\* C22: the work queue holds the first limit open tickets of the agent in
\* descending score order, each in exactly one bucket, the bucket of the
\* rule, and no resolved or closed ticket; the buckets are in descending score
\* order; total is the number of all open tickets of the agent, which the
\* bucket sizes add up to when there are at most limit of them.
C22_WorkQueueHoldsFirstLimit ==
    last.op = "get_work_queue" =>
      LET queue == last.queue
          open == OpenOf(last.agent)
          shown == {queue[pl[1]][pl[2]].ticket : pl \in Places(queue)}
      IN  /\ \A t \in open :
               Cardinality({pl \in Places(queue) :
                              queue[pl[1]][pl[2]].ticket = t}) <= 1
          /\ shown \subseteq open
          /\ Cardinality(shown) = Min(last.limit, Cardinality(open))
          /\ \A t \in open \ shown : \A pl \in Places(queue) :
               \E sc \in ScoresOf(t) :
                 sc.calculated_score
                   <= queue[pl[1]][pl[2]].score.calculated_score
          /\ BucketsByRule(queue)
          /\ queue.total = Cardinality(open)
          /\ Cardinality(open) <= last.limit
               => Cardinality(Places(queue)) = queue.total

\* A queue of two tickets in one bucket, the higher score first, for an agent
\* who owns two open tickets.
C22_Witness ==
    /\ last.op = "get_work_queue"
    /\ last.limit = 50
    /\ Len(last.queue.needs_attention) = 2
    /\ last.queue.needs_attention[1].score.calculated_score
         > last.queue.needs_attention[2].score.calculated_score
    /\ "sla_proximity" \in DOMAIN last.queue.needs_attention[2].score.multipliers
    /\ last.queue.total = 2

\* C23: the tier of a stored resolution is agent when the amount is null or
\* 0; otherwise, with effectiveTier1 the smaller of the tier1_limit of the
\* agent's first team (100 without a team) and the agent's empowerment_limit,
\* and tier2_limit that of the first team (500 without a team), it is agent
\* up to effectiveTier1, team_lead above it up to tier2_limit, and manager
\* otherwise; with the limits 100, 150 and 500 the amounts 90, 300 and 600
\* give agent, team_lead and manager.
C23_DetermineTier ==
    [][(last'.op = "create_resolution" /\ last'.result = "ok") =>
         LET resolution == resolutions'[Len(resolutions')]
             amount == resolution.amount
             agent == agents[last'.agent]
             teamless == agent.team_ids = <<>>
             tier1 == IF teamless THEN 100 ELSE Team(agent.team_ids[1]).tier1_limit
             tier2 == IF teamless THEN 500 ELSE Team(agent.team_ids[1]).tier2_limit
             effectiveTier1 == IF tier1 <= agent.empowerment_limit
                               THEN tier1 ELSE agent.empowerment_limit
             tier == resolution.empowerment_tier
         IN  /\ (amount = NoAmount \/ amount = 0) => tier = "agent"
             /\ (amount /= NoAmount /\ amount /= 0) =>
                  /\ amount <= effectiveTier1 => tier = "agent"
                  /\ (effectiveTier1 < amount /\ amount <= tier2)
                       => tier = "team_lead"
                  /\ (effectiveTier1 < amount /\ tier2 < amount)
                       => tier = "manager"
             /\ (agent.empowerment_limit = 100 /\ tier1 = 150 /\ tier2 = 500) =>
                  /\ amount = 90 => tier = "agent"
                  /\ amount = 300 => tier = "team_lead"
                  /\ amount = 600 => tier = "manager"]_vars

\* An agent with the personal limit 100 in a team with the limits 150 and 500
\* filed a resolution of 150, which needs the team lead.
C23_Witness ==
    /\ last.op = "create_resolution"
    /\ last.result = "ok"
    /\ agents[last.agent].empowerment_limit = 100
    /\ agents[last.agent].team_ids = <<"T1">>
    /\ Len(resolutions) = 1
    /\ resolutions[1].amount = 150
    /\ resolutions[1].empowerment_tier = "team_lead"

\* The calibration items the step added
AddedItems(reasons) ==
    {i \in Len(calibration) + 1..Len(calibration') : calibration'[i].reason \in reasons}

\* C24: create_resolution by an agent who is not the ticket's owner fails with
\* NotOwner and stores nothing; by the owner it stores one resolution, an
\* agent-tier one approved by its author, a team_lead or manager one with
\* approved_by null, and a manager one with exactly one calibration item of
\* reason tier3, the other tiers with none.
C24_CreateResolution ==
    [][last'.op = "create_resolution" =>
         /\ last'.result = "ok" =>
              LET id == Len(resolutions')
                  resolution == resolutions'[id]
                  tier == resolution.empowerment_tier
              IN  /\ tickets[last'.ticket].owner_id = last'.agent
                  /\ AppendsOne(resolutions, resolutions')
                  /\ IsPrefix(calibration, calibration')
                  /\ resolution.agent_id = last'.agent
                  /\ resolution.ticket_id = last'.ticket
                  /\ tier = "agent" => /\ resolution.approved_by = last'.agent
                                       /\ resolution.approved_at /= NoTime
                  /\ tier \in {"team_lead", "manager"} =>
                       /\ resolution.approved_by = None
                       /\ resolution.approved_at = NoTime
                  /\ Cardinality(AddedItems({<<"tier3">>}))
                       = IF tier = "manager" THEN 1 ELSE 0
                  /\ \A i \in AddedItems({<<"tier3">>}) :
                       calibration'[i].resolution_id = id
         /\ last'.result /= "ok" =>
              /\ last'.result = "NotOwner"
              /\ resolutions' = resolutions
              /\ calibration' = calibration
              /\ timeline' = timeline
         /\ \A t \in Tickets, a \in Agents :
              (tickets[t].owner_id /= a /\ CreateResolution(t, a, 90))
                => last'.result = "NotOwner"]_vars

\* A manager-tier resolution of the owner is stored unapproved with its tier3
\* item in the calibration queue.
C24_Witness ==
    /\ last.op = "create_resolution"
    /\ last.result = "ok"
    /\ resolutions[Len(resolutions)].empowerment_tier = "manager"
    /\ resolutions[Len(resolutions)].approved_by = None
    /\ \E i \in 1..Len(calibration) :
         /\ calibration[i].reason = <<"tier3">>
         /\ calibration[i].resolution_id = Len(resolutions)

\* C25: whatever its tier, a stored resolution comes with exactly one
\* calibration item of reason flagged_<type> when the ticket carries one or
\* more of the flags physical_damage, social_media and legal, the type being
\* the first of them, and with no such item when it carries none.
C25_FlagCalibration ==
    [][(last'.op = "create_resolution" /\ last'.result = "ok") =>
         LET flags == tickets[last'.ticket].flags
             hits == {i \in 1..Len(flags) :
                        flags[i] \in {"physical_damage", "social_media", "legal"}}
             flagged == AddedItems({<<"flagged", f>> :
                                      f \in {"physical_damage", "social_media",
                                             "legal"}})
         IN  /\ IsPrefix(calibration, calibration')
             /\ hits = {} => flagged = {}
             /\ hits /= {} =>
                  /\ Cardinality(flagged) = 1
                  /\ \A i \in flagged :
                       /\ calibration'[i].resolution_id = Len(resolutions')
                       /\ \E h \in hits :
                            /\ calibration'[i].reason = <<"flagged", flags[h]>>
                            /\ \A g \in hits : h <= g]_vars

\* A resolution within the agent's own limit on a ticket flagged
\* physical_damage and social_media put one item, flagged_physical_damage,
\* in the calibration queue.
C25_Witness ==
    /\ last.op = "create_resolution"
    /\ last.result = "ok"
    /\ tickets[last.ticket].flags = <<"vip", "physical_damage", "social_media">>
    /\ resolutions[Len(resolutions)].empowerment_tier = "agent"
    /\ Len(calibration) = 1
    /\ calibration[1].reason = <<"flagged", "physical_damage">>

\* The step is a call of approve_resolution, with approved = TRUE
\* ("approve_resolution") or approved = FALSE ("reject_resolution"); the clock
\* stands still during a call
Decides ==
    /\ last'.op \in {"approve_resolution", "reject_resolution"}
    /\ now' = now

\* The resolutions other than r are the ones they were
OthersKept(r) ==
    /\ Len(resolutions') = Len(resolutions)
    /\ \A q \in 1..Len(resolutions) : q # r => resolutions'[q] = resolutions[q]

\* C26: approveResolution with approved = true sets approved_by to the
\* approver, stamps approved_at and appends one resolution entry to the
\* timeline; with approved = false it sets calibration_status to rejected,
\* leaves approved_by and approved_at unchanged and appends no timeline entry.
C26_ApproveResolution ==
    [][Decides =>
         \E r \in 1..Len(resolutions) :
           /\ OthersKept(r)
           /\ resolutions'[r].ticket_id = last'.ticket
           /\ IF last'.op = "approve_resolution"
              THEN /\ resolutions'[r] =
                        [resolutions[r] EXCEPT !.approved_by = last'.agent,
                                               !.approved_at = now]
                   /\ Len(timeline') = Len(timeline) + 1
                   /\ SubSeq(timeline', 1, Len(timeline)) = timeline
                   /\ timeline'[Len(timeline')].type = "resolution"
                   /\ timeline'[Len(timeline')].ticket_id = last'.ticket
              ELSE /\ resolutions'[r] =
                        [resolutions[r] EXCEPT !.calibration_status = "rejected"]
                   /\ resolutions'[r].approved_by = resolutions[r].approved_by
                   /\ resolutions'[r].approved_at = resolutions[r].approved_at
                   /\ timeline' = timeline]_vars

\* A manager resolution approved by a2 at a later time, and logged
C26_Witness ==
    /\ last.op = "approve_resolution"
    /\ Len(resolutions) = 1
    /\ resolutions[1].empowerment_tier = "manager"
    /\ resolutions[1].approved_by = "a2"
    /\ resolutions[1].approved_at = Start + 10
    /\ resolutions[1].calibration_status = "pending"
    /\ timeline[Len(timeline)].type = "resolution"

\* A resolution is decided once it is approved (by its author or by an
\* approver) or rejected
Decided(resolution) ==
    \/ resolution.approved_by # None
    \/ resolution.calibration_status = "rejected"

\* C27: a resolution is terminal once approved or rejected: no later
\* approveResolution call changes the approved_by, approved_at or
\* calibration_status of a resolution that has been self-approved, approved or
\* rejected.
C27_DecidedIsTerminal ==
    [][Decides =>
         \A r \in 1..Len(resolutions) :
           Decided(resolutions[r]) =>
             /\ resolutions'[r].approved_by = resolutions[r].approved_by
             /\ resolutions'[r].approved_at = resolutions[r].approved_at
             /\ resolutions'[r].calibration_status =
                  resolutions[r].calibration_status]_vars

\* The step is a call of one of the handlers that can refuse, and it refused
FailedCall ==
    /\ last'.op \in {"accept_ticket", "transfer_ownership", "release_ownership",
                     "create_envelope", "accept_envelope", "add_envelope_note",
                     "complete_envelope", "create_resolution"}
    /\ last'.result /= "ok"

C29_GateAuthorizes ==
    (last.op \in {"require_owner", "require_owner_or_envelope_expert"}
       /\ last.result = "ok")
    => \/ tickets[last.ticket].owner_id = last.agent
       \/ /\ last.op = "require_owner_or_envelope_expert"
          /\ last.envelope /= 0
          /\ envelopes[last.envelope].assigned_to = last.agent

\* C30: a timeline entry with visibility envelope_only is returned only when
\* the timeline is read in the context of the envelope it belongs to: it is in
\* no customer's view and in no agent's read of the ticket timeline made
\* without that envelope as viewing context; customers see only entries with
\* visibility public.
C30_EnvelopeOnlyStaysInEnvelope ==
    last.op \in {"get_timeline", "get_customer_view"} =>
      \A i \in 1..Len(last.entries) :
        LET entry == last.entries[i]
        IN  /\ last.viewer_type = "customer" => entry.visibility = "public"
            /\ entry.visibility = "envelope_only" =>
                 /\ last.viewer_type = "agent"
                 /\ last.envelope /= 0
                 /\ entry.envelope_id = last.envelope

ChecksTicket(t) ==
    /\ last'.op = "check_ticket_alerts"
    /\ last'.ticket = t
    /\ now' = now

\* The rules of one condition that apply to the ticket, with their levels
RulesOf(t, condition) ==
    LET rules == FlatRules(GetForPriority(tickets[t].priority).alert_levels)
    IN  {rules[k] : k \in {i \in 1..Len(rules) : rules[i].rule.condition = condition}}

\* The call creates an alert of the tuple
Creates(t, condition, level) ==
    AlertsOf(alerts', t, condition, level) /= AlertsOf(alerts, t, condition, level)

\* C32: a not_assigned rule triggers for a ticket exactly when owner_id is
\* null and the business time elapsed since created_at is at least the rule's
\* threshold (the check then creates the alert unless one of the tuple is
\* active); once the ticket has an owner no step creates a not_assigned alert
\* for it at any level.
C32_NotAssigned ==
    [][\A t \in Tickets :
         /\ ChecksTicket(t) =>
              \A r \in RulesOf(t, "not_assigned") :
                Creates(t, "not_assigned", r.level)
                <=> /\ tickets[t].owner_id = None
                    /\ CalcBusinessTime(tickets[t].created_at, now,
                                        GetForPriority(tickets[t].priority))
                         >= Duration(r.rule)
                    /\ GetActive(alerts, t, "not_assigned", r.level) = {}
         /\ tickets[t].owner_id /= None =>
              \A level \in AlertLevels : ~Creates(t, "not_assigned", level)]_vars

\* The ticket was unassigned long enough to raise an alert, which was
\* acknowledged; it has an owner now and was checked again
C32_Witness ==
    /\ last.op = "check_ticket_alerts"
    /\ tickets[last.ticket].owner_id /= None
    /\ \E i \in 1..Len(alerts) :
         /\ alerts[i].ticket_id = last.ticket
         /\ alerts[i].condition = "not_assigned"
         /\ alerts[i].acknowledged_at /= NoTime
         /\ alerts[i].triggered_at < now
    /\ GetActive(alerts, last.ticket, "not_assigned", 1) = {}

\* C33: a not_completed rule never triggers for a ticket whose resolved_at is
\* set or whose sla_breach_at is unset; otherwise it triggers exactly when the
\* time left until sla_breach_at is at most the rule's threshold, at every
\* moment after the deadline too (the check then creates the alert unless one
\* of the tuple is active).
C33_NotCompleted ==
    [][\A t \in Tickets :
         ChecksTicket(t) =>
           \A r \in RulesOf(t, "not_completed") :
             Creates(t, "not_completed", r.level)
             <=> /\ tickets[t].resolved_at = NoTime
                 /\ tickets[t].sla_breach_at /= NoTime
                 /\ tickets[t].sla_breach_at - now <= Duration(r.rule)
                 /\ GetActive(alerts, t, "not_completed", r.level) = {}]_vars

\* A check made after the deadline of an unresolved ticket raised the
\* not_completed alerts of all three levels
C33_Witness ==
    /\ last.op = "check_ticket_alerts"
    /\ tickets[last.ticket].resolved_at = NoTime
    /\ tickets[last.ticket].sla_breach_at /= NoTime
    /\ now > tickets[last.ticket].sla_breach_at
    /\ \A level \in AlertLevels :
         \E i \in 1..Len(alerts) : /\ alerts[i].ticket_id = last.ticket
                                   /\ alerts[i].condition = "not_completed"
                                   /\ alerts[i].level = level
                                   /\ alerts[i].triggered_at = now

\* The rule of a tuple
RuleOf(t, condition, level) ==
    (CHOOSE r \in RulesOf(t, condition) : r.level = level).rule

\* C34: when an alert fires, its recipients_notified holds no agent id twice,
\* holds the ticket's owner when the rule names tech and the ticket is owned,
\* and holds the supervisor of the owner's first team that has one when the
\* rule names supervisor; the alert is stored and one notification is sent to
\* each recipient listed, none to anybody else.
C34_Recipients ==
    [][\A t \in Tickets :
         ChecksTicket(t) =>
           /\ Len(alerts') >= Len(alerts)
           /\ SubSeq(alerts', 1, Len(alerts)) = alerts
           /\ \A i \in (Len(alerts) + 1)..Len(alerts') :
                LET alert == alerts'[i]
                    rule == RuleOf(t, alert.condition, alert.level)
                    owner == tickets[t].owner_id
                    listed == BagToSet(alert.recipients_notified)
                IN  /\ alert.ticket_id = t
                    /\ \A a \in listed : CopiesIn(a, alert.recipients_notified) = 1
                    /\ ("tech" \in rule.recipients /\ owner /= None)
                         => owner \in listed
                    /\ ("supervisor" \in rule.recipients /\ owner /= None)
                         => \A k \in 1..Len(agents[owner].team_ids) :
                              (/\ Team(agents[owner].team_ids[k]).supervisor_id /= None
                               /\ \A j \in 1..(k - 1) :
                                    Team(agents[owner].team_ids[j]).supervisor_id = None)
                              => Team(agents[owner].team_ids[k]).supervisor_id \in listed
                    /\ \A a \in Agents :
                         LET n == Notification(a, t, alert.condition, alert.level)
                         IN  CopiesIn(n, sent') - CopiesIn(n, sent)
                               = IF a \in listed THEN 1 ELSE 0]_vars

\* An alert for tech and supervisor fired on a ticket whose owner is the
\* supervisor of its own first team: one recipient, one notification
C34_Witness ==
    /\ last.op = "check_ticket_alerts"
    /\ tickets[last.ticket].owner_id = "a2"
    /\ \E i \in 1..Len(alerts) :
         /\ alerts[i].ticket_id = last.ticket
         /\ alerts[i].triggered_at = now
         /\ "supervisor" \in RuleOf(last.ticket, alerts[i].condition,
                                   alerts[i].level).recipients
         /\ alerts[i].recipients_notified = SetToBag({"a2"})
         /\ CopiesIn(Notification("a2", last.ticket, alerts[i].condition,
                                  alerts[i].level), sent) = 1

\* C35: in every state reached by accept_ticket, transfer_ownership and
\* release_ownership calls every agent has
\* 0 <= current_tickets <= max_tickets.
C35_CapacityBounds ==
    \A a \in Agents :
      /\ 0 <= agents[a].current_tickets
      /\ agents[a].current_tickets <= agents[a].max_tickets

\* C36: whenever no call is in progress, an agent's current_tickets is the
\* number of tickets whose owner_id is that agent and whose ownership was not
\* released, also after accept_ticket calls of one agent on two tickets have
\* interleaved (no ownership is released in SpecAcceptRace).
C36_CountMatchesOwned ==
    Idle =>
      \A a \in Agents :
        agents[a].current_tickets
          = Cardinality({t \in Tickets : tickets[t].owner_id = a})

\* C37: whenever no envelope call is in progress, a ticket's
\* has_active_envelopes flag is true exactly when one of its envelopes is
\* pending or active, and the ticket waits internally only if one is.
OpenEnvelopes(t) ==
    {e \in GetForTicket(envelopes, t) : envelopes[e].status \in {"pending", "active"}}

C37_FlagMatchesEnvelopes ==
    Idle =>
      \A t \in Tickets :
        /\ tickets[t].has_active_envelopes <=> OpenEnvelopes(t) /= {}
        /\ tickets[t].status = "waiting_internal" => OpenEnvelopes(t) /= {}

\* C38: a ticket that is resolved or closed keeps its status under every
\* envelope operation (create_envelope, accept_envelope, add_envelope_note,
\* complete_envelope).
EnvelopeCall ==
    /\ last'.op \in {"create_envelope", "accept_envelope", "add_envelope_note",
                    "complete_envelope"}
    /\ now' = now

C38_ResolvedStaysResolved ==
    [][\A t \in Tickets :
         (EnvelopeCall /\ tickets[t].status \in {"resolved", "closed"})
            => tickets'[t].status = tickets[t].status]_vars

LevelBelowCreated(i) ==
    \E j \in 1..(i - 1) : /\ alerts[j].ticket_id = alerts[i].ticket_id
                          /\ alerts[j].condition = alerts[i].condition
                          /\ alerts[j].level = alerts[i].level - 1

C40_LevelOrder ==
    \A i \in 1..Len(alerts) :
      (alerts[i].condition \in {"not_assigned", "not_completed"} /\ alerts[i].level > 1)
         => LevelBelowCreated(i)

C40_Witness ==
    /\ \E i \in 1..Len(alerts) : /\ alerts[i].condition = "not_assigned"
                                  /\ alerts[i].level = 3
    /\ \E i \in 1..Len(alerts) : /\ alerts[i].condition = "not_completed"
                                  /\ alerts[i].level = 3
                                  /\ alerts[i].triggered_at = Start + 60

====
